---- MODULE Spec2Model ----
(***************************************************************************)
(* Ledger engine of virtigia-microcurrency: wallets and transactions kept  *)
(* in one Badger store per environment (db package), the record codec and  *)
(* key schema (models package).                                            *)
(*                                                                         *)
(* The store is a map from key strings to JSON objects.  Every call of     *)
(* AddCurrency / RemoveCurrency runs in three steps that other calls may   *)
(* interleave with: the call itself (argument check, generateID,           *)
(* time.Now), the start of the Badger update transaction (snapshot at the  *)
(* read timestamp) and the end of it (the closure body on the snapshot,    *)
(* then Commit with Badger's conflict detection, or Discard).              *)
(***************************************************************************)
EXTENDS Integers, Sequences, FiniteSets, TLC

VARIABLES
    store,      \* committed key/value pairs of the Badger store: key -> JSON object
    nextTxnTs,  \* Badger oracle: the next commit timestamp
    commits,    \* Badger oracle: key -> timestamp of the last commit that wrote it
    now,        \* the last reading of the wall clock (time.Now()), in ticks after Epoch
    calls,      \* per caller goroutine: the AddCurrency/RemoveCurrency call it runs
    started,    \* number of calls started so far
    probe,      \* inputs and outputs of a function that is applied on its own
    reader,     \* the GetTransactionsByWallet call in progress
    history,    \* the committed states the store has been in
    mgr,        \* DBManager: the connections map and its RWMutex
    gets,       \* per caller goroutine: the GetDB call it runs
    disk        \* data directory -> contents of the Badger store kept in it

vars == <<store, nextTxnTs, commits, now, calls, started, probe,
          reader, history, mgr, gets, disk>>

\* the state of the environment multiplexer
envVars == <<mgr, gets, disk>>

----------------------------------------------------------------------------
(* Bounds of the model *)

\* total number of AddCurrency/RemoveCurrency calls in one behaviour
MaxOps == 2
\* number of times the clock reading changes
MaxTime == 2

\* caller goroutines (one per in-flight request)
Procs == {"p1", "p2"}
\* wallet ids of the ledger runs
WalletIDs == {"a", "b"}
\* requested amounts, valid and invalid
Amounts == {-1, 0, 1, 2}
Descriptions == {"d"}

----------------------------------------------------------------------------
(* Strings *)

Digit(d) ==
    CASE d = 0 -> "0" [] d = 1 -> "1" [] d = 2 -> "2" [] d = 3 -> "3" [] d = 4 -> "4"
      [] d = 5 -> "5" [] d = 6 -> "6" [] d = 7 -> "7" [] d = 8 -> "8" [] d = 9 -> "9"

RECURSIVE ZeroPad(_, _)
\* n written in decimal with exactly `width` digits (the .000000000 part of a layout)
ZeroPad(n, width) ==
    IF width = 0 THEN "" ELSE ZeroPad(n \div 10, width - 1) \o Digit(n % 10)

HasPrefix(s, prefix) ==
    Len(s) >= Len(prefix) /\ SubSeq(s, 1, Len(prefix)) = prefix

RECURSIVE LastSlash(_, _)
\* index of the last "/" among the first n characters of s, 0 if none
LastSlash(s, n) ==
    IF n = 0 THEN 0
    ELSE IF SubSeq(s, n, n) = "/" THEN n ELSE LastSlash(s, n - 1)

RECURSIVE StripTrailingSlashes(_)
StripTrailingSlashes(s) ==
    IF Len(s) > 0 /\ SubSeq(s, Len(s), Len(s)) = "/"
    THEN StripTrailingSlashes(SubSeq(s, 1, Len(s) - 1))
    ELSE s

\* filepath.Base: the last element of the path
Base(path) ==
    IF path = "" THEN "."
    ELSE LET p == StripTrailingSlashes(path)
         IN  IF p = "" THEN "/"
             ELSE SubSeq(p, LastSlash(p, Len(p)) + 1, Len(p))

----------------------------------------------------------------------------
(* Clock and transaction ids *)

\* nanoseconds in the fractional part of the layout
NanoDigits == 9

\* time.Time.Format("20060102150405.000000000") of the instant t ticks after Epoch
\* (Epoch is 2024-01-01 00:00:00 local time; one tick is one nanosecond)
FormatTime(t) == "20240101000000." \o ZeroPad(t, NanoDigits)

\* generateID() when the clock reads t
generateID(t) == Base(FormatTime(t))

\* time.Now() when the clock reads t: the wall instant plus a monotonic reading
TimeNow(t) == [instant |-> t, monotonic |-> TRUE]

----------------------------------------------------------------------------
(* Record codec and key schema (package models) *)

\* a Go map[string]interface{}: nil or a (possibly empty) mapping
NilMap == [isNil |-> TRUE, entries |-> <<>>]
GoMap(entries) == [isNil |-> FALSE, entries |-> entries]
AdditionalDatas == {GoMap([game_id |-> "g1"])}

\* Wallet.Key
Wallet_Key(w) == "wallet:" \o w.WalletID

\* Transaction.Key
Transaction_Key(t) == "transaction:" \o t.ID

\* Transaction.WalletKey
Transaction_WalletKey(t) == "wallet:" \o t.WalletID \o ":transaction:" \o t.ID

\* Wallet.ToJSON: the JSON object json.Marshal writes
Wallet_ToJSON(w) == [wallet_id |-> w.WalletID, balance |-> w.Balance]

\* a decoder that takes the balance from any amount the object names
Wallet_FromJSON_AmountIsBalance(w, obj) ==
    [WalletID |-> IF "wallet_id" \in DOMAIN obj THEN obj.wallet_id ELSE w.WalletID,
     Balance  |-> IF "balance" \in DOMAIN obj THEN obj.balance
                  ELSE IF "amount" \in DOMAIN obj THEN obj.amount ELSE w.Balance]

\* Wallet.FromJSON: json.Unmarshal into an existing struct sets the fields the
\* object names and leaves the others as they are
Wallet_FromJSON(w, obj) ==
    [WalletID |-> IF "wallet_id" \in DOMAIN obj THEN obj.wallet_id ELSE w.WalletID,
     Balance  |-> IF "balance" \in DOMAIN obj THEN obj.balance ELSE w.Balance]

\* Transaction.ToJSON: additional_data is omitted when the map is empty (omitempty)
Transaction_ToJSON(t) ==
    [id |-> t.ID, wallet_id |-> t.WalletID, amount |-> t.Amount,
     description |-> t.Description, timestamp |-> t.Timestamp.instant]
    @@ (IF t.AdditionalData.isNil \/ DOMAIN t.AdditionalData.entries = {}
        THEN <<>>
        ELSE [additional_data |-> t.AdditionalData.entries])

\* time.Time{}: January 1 of year 1, before every reading of the clock (the
\* readings are the instants 0, 1, ... after Epoch); it has no monotonic reading
ZeroTime == [instant |-> -1, monotonic |-> FALSE]

\* the zero value of the Transaction struct
ZeroTransaction ==
    [ID |-> "", WalletID |-> "", Amount |-> 0, Description |-> "",
     AdditionalData |-> NilMap, Timestamp |-> ZeroTime]

\* Transaction.FromJSON: json.Unmarshal into an existing struct sets the fields
\* the object names and leaves the others as they are; a nil map is replaced
\* by a new one, a map that exists is reused and keeps the entries the object
\* does not name
Transaction_FromJSON(t, obj) ==
    [ID          |-> IF "id" \in DOMAIN obj THEN obj.id ELSE t.ID,
     WalletID    |-> IF "wallet_id" \in DOMAIN obj THEN obj.wallet_id ELSE t.WalletID,
     Amount      |-> IF "amount" \in DOMAIN obj THEN obj.amount ELSE t.Amount,
     Description |-> IF "description" \in DOMAIN obj THEN obj.description ELSE t.Description,
     AdditionalData |-> IF "additional_data" \in DOMAIN obj
                        THEN IF t.AdditionalData.isNil
                                  \/ DOMAIN t.AdditionalData.entries = {}
                             THEN GoMap(obj.additional_data)
                             ELSE GoMap(obj.additional_data @@ t.AdditionalData.entries)
                        ELSE t.AdditionalData,
     Timestamp   |-> IF "timestamp" \in DOMAIN obj
                     THEN [instant |-> obj.timestamp, monotonic |-> FALSE]
                     ELSE t.Timestamp]

----------------------------------------------------------------------------
(* Errors *)

NoErr == "nil"
\* errors.New("amount must be positive")
ErrAmount == "amount must be positive"
ErrInsufficientFunds == "insufficient funds"
\* badger.ErrConflict, returned by Commit
ErrConflict == "Transaction Conflict. Please retry"

----------------------------------------------------------------------------
(* Reads of a store state (a committed state or a transaction's snapshot) *)

\* DB.GetWallet: a wallet without a record reads as a zero balance wallet
GetWallet(s, walletID) ==
    LET wallet == [WalletID |-> walletID, Balance |-> 0]
    IN  IF Wallet_Key(wallet) \in DOMAIN s
        THEN Wallet_FromJSON(wallet, s[Wallet_Key(wallet)])
        ELSE [wallet EXCEPT !.Balance = 0]

\* DB.GetWalletBalance
GetWalletBalance(s, walletID) == GetWallet(s, walletID).Balance

\* the keys the iterator of GetTransactionsByWallet visits
ScanKeys(s, walletID) ==
    {k \in DOMAIN s : HasPrefix(k, "wallet:" \o walletID \o ":transaction:")}

\* the transactions GetTransactionsByWallet collects, as a set
WalletTransactions(s, walletID) ==
    {Transaction_FromJSON(ZeroTransaction, s[k]) : k \in ScanKeys(s, walletID)}

RECURSIVE SumAmounts(_, _)
\* the sum of the amounts stored under the keys ks
SumAmounts(s, ks) ==
    IF ks = {} THEN 0
    ELSE LET k == CHOOSE x \in ks : TRUE
         IN  Transaction_FromJSON(ZeroTransaction, s[k]).Amount
             + SumAmounts(s, ks \ {k})

----------------------------------------------------------------------------
(* Key order of the store *)

\* the bytes that occur in keys, in the order of their values
ByteOrder == "./0123456789:abcdefghijklmnopqrstuvwxyz"

RECURSIVE ByteRank(_, _)
\* the position of the byte c in ByteOrder, searched from position i
ByteRank(c, i) ==
    IF SubSeq(ByteOrder, i, i) = c THEN i ELSE ByteRank(c, i + 1)

\* bytes.Compare(a, b) < 0: the order in which Badger keeps and iterates keys.
\* The first position where a and b differ decides; without one the shorter
\* string is first
BytesLess(a, b) ==
    LET n    == IF Len(a) < Len(b) THEN Len(a) ELSE Len(b)
        diff == {i \in 1..n : SubSeq(a, i, i) # SubSeq(b, i, i)}
    IN  IF diff = {} THEN Len(a) < Len(b)
        ELSE LET d == CHOOSE i \in diff : \A j \in diff : i <= j
             IN  ByteRank(SubSeq(a, d, d), 1) < ByteRank(SubSeq(b, d, d), 1)

RECURSIVE SortedKeys(_)
\* the keys ks in iteration order
SortedKeys(ks) ==
    IF ks = {} THEN <<>>
    ELSE LET first == CHOOSE k \in ks : \A o \in ks \ {k} : BytesLess(k, o)
         IN  <<first>> \o SortedKeys(ks \ {first})

RECURSIVE DecodeValues(_, _)
\* the values of s under keys, each decoded into a Transaction, in that order
DecodeValues(s, keys) ==
    IF keys = <<>> THEN <<>>
    ELSE <<Transaction_FromJSON(ZeroTransaction, s[Head(keys)])>>
         \o DecodeValues(s, Tail(keys))

\* the slice the iteration loop of GetTransactionsByWallet appends to: every
\* value under the prefix, decoded into a Transaction, in key order
CollectTransactions(s, walletID) ==
    DecodeValues(s, SortedKeys(ScanKeys(s, walletID)))

----------------------------------------------------------------------------
(* Go int values of the pagination arguments *)

\* a 64 bit int is written as n with -2^31 < n < 2^31, as MaxInt - n or
\* MinInt + n with 0 <= n < 10^9, and any other int by its sign and the three
\* limbs of its magnitude hi * 10^18 + mid * 10^9 + lo
GoInt(n) == [base |-> "zero", off |-> n]
MaxIntMinus(n) == [base |-> "max", off |-> n]
MinIntPlus(n) == [base |-> "min", off |-> n]
BigInt(neg, hi, mid, lo) == [base |-> "big", neg |-> neg, hi |-> hi, mid |-> mid, lo |-> lo]

\* numbers of up to 21 digits are triples of limbs <<hi, mid, lo>>
LimbBase == 10^9
\* 2^63, 2^64 and 2^64 - 1
Two63 == <<9, 223372036, 854775808>>
Two64 == <<18, 446744073, 709551616>>
MaxUint == <<18, 446744073, 709551615>>

LimbAdd(a, b) == <<a[1] + b[1], a[2] + b[2], a[3] + b[3]>>
LimbSub(a, b) == <<a[1] - b[1], a[2] - b[2], a[3] - b[3]>>

\* the same number with mid and lo in 0 .. 10^9 - 1
Carry(t) ==
    LET m0 == t[2] + (t[3] \div LimbBase)
    IN  <<t[1] + (m0 \div LimbBase), m0 % LimbBase, t[3] % LimbBase>>

\* a < b of two carried triples
LimbLess(a, b) ==
    \/ a[1] < b[1]
    \/ a[1] = b[1] /\ a[2] < b[2]
    \/ a[1] = b[1] /\ a[2] = b[2] /\ a[3] < b[3]

\* the 64 bits of x read as an unsigned number, with the sign bit flipped:
\* x + 2^63, in 0 .. 2^64 - 1
ToLimbs(x) ==
    CASE x.base = "zero" ->
            Carry(LimbAdd(Two63, <<0, x.off \div LimbBase, x.off % LimbBase>>))
      [] x.base = "max" ->
            Carry(LimbSub(MaxUint, <<0, x.off \div LimbBase, x.off % LimbBase>>))
      [] x.base = "min" ->
            Carry(<<0, x.off \div LimbBase, x.off % LimbBase>>)
      [] x.base = "big" ->
            IF x.neg THEN Carry(LimbSub(Two63, <<x.hi, x.mid, x.lo>>))
            ELSE Carry(LimbAdd(Two63, <<x.hi, x.mid, x.lo>>))

\* the int x with x + 2^63 = u
FromLimbs(u) ==
    LET neg  == LimbLess(u, Two63)
        mag  == IF neg THEN Carry(LimbSub(Two63, u)) ELSE Carry(LimbSub(u, Two63))
        down == Carry(LimbSub(MaxUint, u))
    IN  IF mag[1] = 0 /\ LimbLess(mag, <<0, 2, 147483648>>)
        THEN GoInt(IF neg THEN -(mag[2] * LimbBase + mag[3])
                   ELSE mag[2] * LimbBase + mag[3])
        ELSE IF u[1] = 0 /\ u[2] = 0 THEN MinIntPlus(u[3])
        ELSE IF down[1] = 0 /\ down[2] = 0 THEN MaxIntMinus(down[3])
        ELSE BigInt(neg, mag[1], mag[2], mag[3])

\* x + y of Go ints: two's complement, wraps around silently
AddInt(x, y) ==
    LET t == Carry(LimbSub(LimbAdd(ToLimbs(x), ToLimbs(y)), Two63))
    IN  FromLimbs(IF t[1] < 0 THEN Carry(LimbAdd(t, Two64))
                  ELSE IF ~LimbLess(t, Two64) THEN Carry(LimbSub(t, Two64))
                  ELSE t)

\* x < y of Go ints
IntLess(x, y) == LimbLess(ToLimbs(x), ToLimbs(y))

----------------------------------------------------------------------------
(* Sorting and pagination of GetTransactionsByWallet *)

\* slices are indexed from 0 as in the code: data[i] of the code is data[i + 1]
Swap(data, i, j) == [data EXCEPT ![i + 1] = data[j + 1], ![j + 1] = data[i + 1]]

\* a less function that orders ascending whatever the sort order
Less_AlwaysAscending(sortBy, sortOrder, x, y) ==
    IF sortBy = "timestamp"
    THEN x.Timestamp.instant < y.Timestamp.instant
    ELSE x.Amount < y.Amount

\* the less function sortTransactions hands to sort.Slice, on two elements;
\* Timestamp.Before and Timestamp.After compare the instants
Less(sortBy, sortOrder, x, y) ==
    CASE sortBy = "timestamp" /\ sortOrder = "ASC" ->
            x.Timestamp.instant < y.Timestamp.instant
      [] sortBy = "timestamp" /\ sortOrder = "DESC" ->
            x.Timestamp.instant > y.Timestamp.instant
      [] sortBy = "amount" /\ sortOrder = "ASC" -> x.Amount < y.Amount
      [] sortBy = "amount" /\ sortOrder = "DESC" -> x.Amount > y.Amount

\* sortTransactions calls sort.Slice for these arguments only
SortsBy(sortBy, sortOrder) ==
    sortBy \in {"timestamp", "amount"} /\ sortOrder \in {"ASC", "DESC"}

RECURSIVE InsertionInner(_, _, _, _, _)
\* for j := i; j > a && less(j, j-1); j-- { swap(j, j-1) }
InsertionInner(data, a, j, sortBy, sortOrder) ==
    IF j > a /\ Less(sortBy, sortOrder, data[j + 1], data[j])
    THEN InsertionInner(Swap(data, j, j - 1), a, j - 1, sortBy, sortOrder)
    ELSE data

RECURSIVE InsertionOuter(_, _, _, _, _, _)
\* for i := a + 1; i < b; i++ { ... }
InsertionOuter(data, a, b, i, sortBy, sortOrder) ==
    IF i < b
    THEN InsertionOuter(InsertionInner(data, a, i, sortBy, sortOrder),
                        a, b, i + 1, sortBy, sortOrder)
    ELSE data

\* insertionSort_func of package sort on data[a:b]
insertionSort(data, a, b, sortBy, sortOrder) ==
    InsertionOuter(data, a, b, a + 1, sortBy, sortOrder)

\* order2_func: the indices a, b in the order of their elements, counting a swap
order2(data, a, b, swaps, sortBy, sortOrder) ==
    IF Less(sortBy, sortOrder, data[b + 1], data[a + 1])
    THEN [x |-> b, y |-> a, swaps |-> swaps + 1]
    ELSE [x |-> a, y |-> b, swaps |-> swaps]

\* median_func: the index of the median of data[a], data[b], data[c]
median(data, a, b, c, sortBy, sortOrder) ==
    LET r1 == order2(data, a, b, 0, sortBy, sortOrder)
        r2 == order2(data, r1.y, c, r1.swaps, sortBy, sortOrder)
        r3 == order2(data, r1.x, r2.x, r2.swaps, sortBy, sortOrder)
    IN  [pivot |-> r3.y, swaps |-> r3.swaps]

\* choosePivot_func on data[a:b] for 8 <= b - a < 50: the median of the
\* elements at the three quarter points
choosePivot(data, a, b, sortBy, sortOrder) ==
    LET l == b - a
    IN  median(data, a + (l \div 4) * 1, a + (l \div 4) * 2, a + (l \div 4) * 3,
               sortBy, sortOrder)

\* partialInsertionSort_func on data[a:b] for b - a < 50 changes nothing and
\* reports whether the range is sorted already
partialInsertionSort(data, a, b, sortBy, sortOrder) ==
    \A i \in (a + 1)..(b - 1) : ~Less(sortBy, sortOrder, data[i + 1], data[i])

RECURSIVE SkipLess(_, _, _, _, _, _)
\* for i <= j && less(i, a) { i++ }
SkipLess(data, a, i, j, sortBy, sortOrder) ==
    IF i <= j /\ Less(sortBy, sortOrder, data[i + 1], data[a + 1])
    THEN SkipLess(data, a, i + 1, j, sortBy, sortOrder)
    ELSE i

RECURSIVE SkipNotLess(_, _, _, _, _, _)
\* for i <= j && !less(j, a) { j-- }
SkipNotLess(data, a, i, j, sortBy, sortOrder) ==
    IF i <= j /\ ~Less(sortBy, sortOrder, data[j + 1], data[a + 1])
    THEN SkipNotLess(data, a, i, j - 1, sortBy, sortOrder)
    ELSE j

RECURSIVE PartitionLoop(_, _, _, _, _, _)
\* the main loop of partition_func, the pivot is at index a
PartitionLoop(data, a, i, j, sortBy, sortOrder) ==
    LET i1 == SkipLess(data, a, i, j, sortBy, sortOrder)
        j1 == SkipNotLess(data, a, i1, j, sortBy, sortOrder)
    IN  IF i1 > j1
        THEN [data |-> data, j |-> j1]
        ELSE PartitionLoop(Swap(data, i1, j1), a, i1 + 1, j1 - 1, sortBy, sortOrder)

\* partition_func on data[a:b] around data[pivot]
partition(data, a, b, pivot, sortBy, sortOrder) ==
    LET d0 == Swap(data, a, pivot)
        i1 == SkipLess(d0, a, a + 1, b - 1, sortBy, sortOrder)
        j1 == SkipNotLess(d0, a, i1, b - 1, sortBy, sortOrder)
    IN  IF i1 > j1
        THEN [data |-> Swap(d0, j1, a), mid |-> j1]
        ELSE LET r == PartitionLoop(Swap(d0, i1, j1), a, i1 + 1, j1 - 1,
                                    sortBy, sortOrder)
             IN  [data |-> Swap(r.data, r.j, a), mid |-> r.j]

\* pdqsort_func sorts ranges of at most maxInsertion elements by insertion
maxInsertion == 12

\* sort.Slice (Go 1.20: pdqsort_func on data[0:n]).  Up to maxInsertion elements
\* are sorted by insertion.  With maxInsertion + 1 elements one pass of the
\* loop runs: choosePivot, a return when the data is found sorted, else
\* partition, after which both sides are short enough for insertion sort.
\* Longer slices are outside the model.
sortSlice(data, sortBy, sortOrder) ==
    LET n == Len(data)
    IN  CASE n <= maxInsertion -> insertionSort(data, 0, n, sortBy, sortOrder)
          [] n = maxInsertion + 1 ->
                LET cp == choosePivot(data, 0, n, sortBy, sortOrder)
                IN  IF cp.swaps = 0 /\ partialInsertionSort(data, 0, n, sortBy, sortOrder)
                    THEN data
                    ELSE LET pt == partition(data, 0, n, cp.pivot, sortBy, sortOrder)
                         IN  insertionSort(
                                 insertionSort(pt.data, 0, pt.mid, sortBy, sortOrder),
                                 pt.mid + 1, n, sortBy, sortOrder)

\* DB.sortTransactions: other arguments leave the slice as it is
sortTransactions(transactions, sortBy, sortOrder) ==
    IF SortsBy(sortBy, sortOrder)
    THEN sortSlice(transactions, sortBy, sortOrder)
    ELSE transactions

\* the pagination step of GetTransactionsByWallet: an empty slice when offset
\* is beyond the end, otherwise transactions[start:end], which panics (slice
\* bounds out of range) unless 0 <= start <= end
Paginate(transactions, limit, offset) ==
    LET n     == Len(transactions)
        start == offset
        end0  == AddInt(offset, limit)
        end   == IF IntLess(GoInt(n), end0) THEN GoInt(n) ELSE end0
    IN  IF IntLess(GoInt(n), start)
        THEN [panic |-> FALSE, transactions |-> <<>>]
        ELSE IF IntLess(start, GoInt(0)) \/ IntLess(end, start)
             THEN [panic |-> TRUE, transactions |-> <<>>]
             ELSE [panic |-> FALSE,
                   transactions |-> SubSeq(transactions, start.off + 1, end.off)]

\* DB.GetTransactionsByWallet on the snapshot s of its View transaction
GetTransactionsByWallet(s, walletID, limit, offset, sortBy, sortOrder) ==
    Paginate(sortTransactions(CollectTransactions(s, walletID), sortBy, sortOrder),
             limit, offset)

----------------------------------------------------------------------------
(* Badger update transactions *)

\* txn.Set of each write in order on top of s (a later Set of a key wins)
RECURSIVE ApplyWrites(_, _)
ApplyWrites(s, writes) ==
    IF writes = <<>> THEN s
    ELSE LET w == Head(writes)
             s1 == (w[1] :> w[2]) @@ s
         IN  ApplyWrites(s1, Tail(writes))

WriteKeys(writes) == {writes[i][1] : i \in DOMAIN writes}

\* a store without conflict detection (last writer wins)
HasConflict_Never(reads, readTs) == FALSE

\* oracle.hasConflict: a key the transaction read was committed after its readTs
HasConflict(reads, readTs) ==
    \E k \in reads : k \in DOMAIN commits /\ commits[k] > readTs

\* the closure AddCurrency passes to db.Update, run on the snapshot s
AddCurrencyBody(s, walletID, amount, tx) ==
    LET wallet0 == [WalletID |-> walletID, Balance |-> 0]
        key0    == Wallet_Key(wallet0)
        wallet1 == IF key0 \in DOMAIN s
                   THEN Wallet_FromJSON(wallet0, s[key0])
                   ELSE [wallet0 EXCEPT !.Balance = 0]
        wallet2 == [wallet1 EXCEPT !.Balance = @ + amount]
    IN  [err    |-> NoErr,
         reads  |-> {key0},
         writes |-> << <<Wallet_Key(wallet2), Wallet_ToJSON(wallet2)>>,
                       <<Transaction_Key(tx), Transaction_ToJSON(tx)>>,
                       <<Transaction_WalletKey(tx), Transaction_ToJSON(tx)>> >>]

\* the balance check with its operands exchanged
InsufficientFunds_Swapped(balance, amount) == amount < balance

\* a balance check that only refuses an empty wallet
InsufficientFunds_EmptyOnly(balance, amount) == balance <= 0

\* a balance check that refuses to empty the wallet
InsufficientFunds_AtMost(balance, amount) == balance <= amount

\* the balance check of RemoveCurrency
InsufficientFunds(balance, amount) == balance < amount

\* a closure that debits a wallet without a record as a wallet of balance 0
RemoveCurrencyBody_MissingIsZero(s, walletID, amount, tx) ==
    LET wallet0 == [WalletID |-> walletID, Balance |-> 0]
        key0    == Wallet_Key(wallet0)
        wallet1 == IF key0 \in DOMAIN s
                   THEN Wallet_FromJSON(wallet0, s[key0])
                   ELSE wallet0
        wallet2 == [wallet1 EXCEPT !.Balance = @ - amount]
    IN  IF key0 \in DOMAIN s /\ InsufficientFunds(wallet1.Balance, amount)
        THEN [err |-> ErrInsufficientFunds, reads |-> {key0}, writes |-> <<>>]
        ELSE [err    |-> NoErr,
              reads  |-> {key0},
              writes |-> << <<Wallet_Key(wallet2), Wallet_ToJSON(wallet2)>>,
                            <<Transaction_Key(tx), Transaction_ToJSON(tx)>>,
                            <<Transaction_WalletKey(tx), Transaction_ToJSON(tx)>> >>]

\* the closure RemoveCurrency passes to db.Update, run on the snapshot s
RemoveCurrencyBody(s, walletID, amount, tx) ==
    LET wallet0 == [WalletID |-> walletID, Balance |-> 0]
        key0    == Wallet_Key(wallet0)
        wallet1 == IF key0 \in DOMAIN s
                   THEN Wallet_FromJSON(wallet0, s[key0])
                   ELSE wallet0
        wallet2 == [wallet1 EXCEPT !.Balance = @ - amount]
    IN  IF key0 \notin DOMAIN s \/ InsufficientFunds(wallet1.Balance, amount)
        THEN [err |-> ErrInsufficientFunds, reads |-> {key0}, writes |-> <<>>]
        ELSE [err    |-> NoErr,
              reads  |-> {key0},
              writes |-> << <<Wallet_Key(wallet2), Wallet_ToJSON(wallet2)>>,
                            <<Transaction_Key(tx), Transaction_ToJSON(tx)>>,
                            <<Transaction_WalletKey(tx), Transaction_ToJSON(tx)>> >>]

----------------------------------------------------------------------------
(* Calls *)

NoTx == <<>>
NoSnapshot == <<>>

\* pc, op, walletID, amount, tx, err: the call's position, arguments, Transaction
\* and returned error; readTs, snapshot: its Badger transaction; readVer,
\* readBalance: the version and balance of the wallet record that transaction
\* read; commitTs: the timestamp it committed at
IdleCall ==
    [pc |-> "idle", op |-> "none", walletID |-> "", amount |-> 0, tx |-> NoTx,
     readTs |-> 0, snapshot |-> NoSnapshot, readVer |-> 0, readBalance |-> 0,
     commitTs |-> 0, err |-> NoErr]

\* goroutines are interchangeable: a new call runs on the first free one
Before(q, p) == q = "p1" /\ p = "p2"

\* an argument check that lets a zero amount pass
InvalidAmount_NegativeOnly(amount) == amount < 0

\* the argument check of AddCurrency and RemoveCurrency
InvalidAmount(amount) == amount <= 0

\* the Transaction a call builds: generateID() at clock reading t1, time.Now() at t2
NewTransaction(t1, t2, walletID, amount, description, additionalData) ==
    [ID |-> generateID(t1), WalletID |-> walletID, Amount |-> amount,
     Description |-> description, AdditionalData |-> additionalData,
     Timestamp |-> TimeNow(t2)]

\* a call enters op(walletID, amount, ...): it returns at once on an invalid
\* amount, otherwise it starts the Transaction literal with ID: generateID(),
\* which reads the clock at t1; a reading of the clock is the last one or one
\* tick later.  The literal is completed by ClockTimestamp in a step of its
\* own: the two readings are not taken under a lock, so readings of another
\* call can fall between them
CallEnter(p, op, walletID, amount, description, additionalData) ==
    /\ calls[p].pc \in {"idle", "done"}
    /\ \A q \in Procs : Before(q, p) => calls[q].pc \notin {"idle", "done"}
    /\ started < MaxOps
    /\ started' = started + 1
    /\ IF InvalidAmount(amount)
       THEN /\ calls' = [calls EXCEPT ![p] =
                    [IdleCall EXCEPT !.pc = "done", !.op = op, !.walletID = walletID,
                                     !.amount = amount, !.err = ErrAmount]]
            /\ now' = now
       ELSE \E t1 \in {now, now + 1} :
            /\ t1 <= MaxTime
            /\ now' = t1
            /\ calls' = [calls EXCEPT ![p] =
                    [IdleCall EXCEPT !.pc = "literal", !.op = op, !.walletID = walletID,
                                     !.amount = amount,
                                     !.tx = [t1 |-> t1, description |-> description,
                                             additionalData |-> additionalData]]]
    /\ UNCHANGED <<store, nextTxnTs, commits, probe, reader, history, envVars>>

AddCurrencyCall(p) ==
    \E w \in WalletIDs, a \in Amounts, d \in Descriptions, ad \in AdditionalDatas :
        CallEnter(p, "AddCurrency", w, a, d, ad)

RemoveCurrencyCall(p) ==
    \E w \in WalletIDs, a \in Amounts, d \in Descriptions, ad \in AdditionalDatas :
        CallEnter(p, "RemoveCurrency", w, a, d, ad)

\* the Transaction literal is completed with Timestamp: time.Now(), which reads
\* the clock at t2
ClockTimestamp(p) ==
    /\ calls[p].pc = "literal"
    /\ \E t2 \in {now, now + 1} :
        /\ t2 <= MaxTime
        /\ now' = t2
        /\ calls' = [calls EXCEPT
                ![p].pc = "update",
                ![p].tx = NewTransaction(calls[p].tx.t1, t2, calls[p].walletID,
                              IF calls[p].op = "AddCurrency" THEN calls[p].amount
                              ELSE -calls[p].amount,
                              calls[p].tx.description, calls[p].tx.additionalData)]
    /\ UNCHANGED <<store, nextTxnTs, commits, started, probe, reader, history, envVars>>

\* the commit timestamp of the version of key that is visible at readTs
VersionOf(key) == IF key \in DOMAIN commits THEN commits[key] ELSE 0

\* db.Update starts the transaction: it reads the committed state as of readTs
UpdateBegin(p) ==
    /\ calls[p].pc = "update"
    /\ calls' = [calls EXCEPT
            ![p].pc = "txn", ![p].readTs = nextTxnTs - 1, ![p].snapshot = store,
            ![p].readVer = VersionOf(Wallet_Key([WalletID |-> calls[p].walletID])),
            ![p].readBalance = GetWalletBalance(store, calls[p].walletID)]
    /\ UNCHANGED <<store, nextTxnTs, commits, now, started, probe, reader, history, envVars>>

\* the call returns err (and its Transaction when err is nil); commitTs is the
\* timestamp its transaction committed at, 0 when it did not commit
Return(p, err, commitTs) ==
    [calls EXCEPT ![p].pc = "done", ![p].err = err,
                  ![p].tx = IF err = NoErr THEN @ ELSE NoTx,
                  ![p].readTs = 0, ![p].snapshot = NoSnapshot,
                  ![p].commitTs = commitTs]

\* txn.Commit: ErrConflict and no write when a key that was read has been
\* committed since readTs, otherwise all pending writes at once
Commit(s, writes, reads, readTs) ==
    IF HasConflict(reads, readTs)
    THEN [err |-> ErrConflict, store |-> s, written |-> {}]
    ELSE [err |-> NoErr, store |-> ApplyWrites(s, writes), written |-> WriteKeys(writes)]

\* a store whose txn.Set writes through at once: the Sets of a closure that
\* failed stay in the store
Update_KeepsSets(s, body, readTs) ==
    IF body.err # NoErr
    THEN [err |-> body.err, store |-> ApplyWrites(s, body.writes), written |-> {}]
    ELSE Commit(s, body.writes, body.reads, readTs)

\* db.Update after the closure returned body: Discard when the closure failed,
\* Commit otherwise
Update(s, body, readTs) ==
    IF body.err # NoErr
    THEN [err |-> body.err, store |-> s, written |-> {}]
    ELSE Commit(s, body.writes, body.reads, readTs)

\* db.Update ends and the call returns
UpdateEnd(p, body) ==
    LET r == Update(store, body, calls[p].readTs)
    IN  /\ store' = r.store
        /\ commits' = [k \in DOMAIN commits \cup r.written |->
                          IF k \in r.written THEN nextTxnTs ELSE commits[k]]
        /\ nextTxnTs' = IF r.written # {} THEN nextTxnTs + 1 ELSE nextTxnTs
        /\ calls' = Return(p, r.err, IF r.written # {} THEN nextTxnTs ELSE 0)
        /\ history' = IF r.written # {} THEN history \cup {r.store} ELSE history
        /\ UNCHANGED <<now, started, probe, reader, envVars>>

AddCurrencyCommit(p) ==
    /\ calls[p].pc = "txn"
    /\ calls[p].op = "AddCurrency"
    /\ UpdateEnd(p, AddCurrencyBody(calls[p].snapshot, calls[p].walletID,
                                    calls[p].amount, calls[p].tx))

RemoveCurrencyCommit(p) ==
    /\ calls[p].pc = "txn"
    /\ calls[p].op = "RemoveCurrency"
    /\ UpdateEnd(p, RemoveCurrencyBody(calls[p].snapshot, calls[p].walletID,
                                       calls[p].amount, calls[p].tx))

NoProbe == [pc |-> "none"]

\* no GetTransactionsByWallet call in progress
NoReader == [pc |-> "idle"]

\* the environment multiplexer is not part of the run
NoEnv ==
    /\ mgr = <<>>
    /\ gets = <<>>
    /\ disk = <<>>

\* the Transaction of the credit that funded wallet "a" before the calls of
\* the model start: AddCurrency("a", 2, "d", ...) at clock reading 0
FundingAmount == 2
FundingTx ==
    NewTransaction(0, 0, "a", FundingAmount, "d", GoMap([game_id |-> "g1"]))

\* a store opened on an empty directory, after that one committed AddCurrency
Init ==
    /\ store = ApplyWrites(<<>>, AddCurrencyBody(<<>>, "a", FundingAmount, FundingTx).writes)
    /\ nextTxnTs = 2
    /\ commits = [k \in WriteKeys(AddCurrencyBody(<<>>, "a", FundingAmount, FundingTx).writes)
                      |-> 1]
    /\ now = 0
    /\ calls = [p \in Procs |-> IdleCall]
    /\ started = 0
    /\ probe = NoProbe
    /\ reader = NoReader
    /\ history = {store}
    /\ NoEnv

Next ==
    \/ \E p \in Procs : AddCurrencyCall(p)
    \/ \E p \in Procs : RemoveCurrencyCall(p)
    \/ \E p \in Procs : ClockTimestamp(p)
    \/ \E p \in Procs : UpdateBegin(p)
    \/ \E p \in Procs : AddCurrencyCommit(p)
    \/ \E p \in Procs : RemoveCurrencyCommit(p)

Spec == Init /\ [][Next]_vars

----------------------------------------------------------------------------
(* Calls whose closure is failed by the store *)

\* an error of txn.Get other than ErrKeyNotFound, or of txn.Set: the closure
\* returns it as it is (`return err`)
ErrStore == "store error"

\* the closure that built body, failed by the store after `sets` of its
\* txn.Set calls went through (sets = 0: its txn.Get or its first txn.Set
\* failed)
ClosureFails(body, sets) ==
    [err |-> ErrStore, reads |-> body.reads, writes |-> SubSeq(body.writes, 1, sets)]

\* the wallets and amounts of the calls: "a" is funded, "b" has no record
FaultWalletIDs == {"a", "b"}
FaultAmounts == {0, 2}

FaultAddCurrencyCall(p) ==
    \E w \in FaultWalletIDs, a \in FaultAmounts, d \in Descriptions,
       ad \in AdditionalDatas :
        CallEnter(p, "AddCurrency", w, a, d, ad)

FaultRemoveCurrencyCall(p) ==
    \E w \in FaultWalletIDs, a \in FaultAmounts, d \in Descriptions,
       ad \in AdditionalDatas :
        CallEnter(p, "RemoveCurrency", w, a, d, ad)

\* the closure of AddCurrency returns a store error and db.Update ends
AddCurrencyStoreError(p) ==
    /\ calls[p].pc = "txn"
    /\ calls[p].op = "AddCurrency"
    /\ \E sets \in 0..2 :
          UpdateEnd(p, ClosureFails(AddCurrencyBody(calls[p].snapshot, calls[p].walletID,
                                                    calls[p].amount, calls[p].tx),
                                    sets))

\* the closure of RemoveCurrency returns a store error and db.Update ends; it
\* reaches its txn.Set calls only past the check of the balance
RemoveCurrencyStoreError(p) ==
    /\ calls[p].pc = "txn"
    /\ calls[p].op = "RemoveCurrency"
    /\ LET body == RemoveCurrencyBody(calls[p].snapshot, calls[p].walletID,
                                      calls[p].amount, calls[p].tx)
       IN  \E sets \in 0..2 :
               /\ sets <= Len(body.writes)
               /\ UpdateEnd(p, ClosureFails(body, sets))

FaultNext ==
    \/ \E p \in Procs : FaultAddCurrencyCall(p)
    \/ \E p \in Procs : FaultRemoveCurrencyCall(p)
    \/ \E p \in Procs : ClockTimestamp(p)
    \/ \E p \in Procs : UpdateBegin(p)
    \/ \E p \in Procs : AddCurrencyCommit(p)
    \/ \E p \in Procs : RemoveCurrencyCommit(p)
    \/ \E p \in Procs : AddCurrencyStoreError(p)
    \/ \E p \in Procs : RemoveCurrencyStoreError(p)

FaultSpec == Init /\ [][FaultNext]_vars

----------------------------------------------------------------------------
(* The key functions on arbitrary ids *)

\* wallet ids as a caller may supply them (any string is accepted)
KeyWalletIDs ==
    {"a", "b", "a:", "a:transaction:", "a:transaction:" \o generateID(0)}

\* transaction ids generateID produces
TxIDs == {generateID(t) : t \in 0..MaxTime}

InitKeys ==
    /\ store = <<>>
    /\ nextTxnTs = 1
    /\ commits = <<>>
    /\ now = 0
    /\ calls = [p \in Procs |-> IdleCall]
    /\ started = 0
    /\ reader = NoReader
    /\ history = {store}
    /\ NoEnv
    /\ probe \in {[pc |-> "in", wallet1 |-> w1, wallet2 |-> w2, id |-> id,
                   walletKey1 |-> "", walletKey2 |-> "", txKey |-> "", txWalletKey |-> ""] :
                  w1 \in KeyWalletIDs, w2 \in KeyWalletIDs, id \in TxIDs}

\* the keys of wallet1, of wallet2 and of the transaction id of wallet2
DeriveKeys ==
    /\ probe.pc = "in"
    /\ probe' = [probe EXCEPT
            !.pc = "out",
            !.walletKey1 = Wallet_Key([WalletID |-> probe.wallet1, Balance |-> 0]),
            !.walletKey2 = Wallet_Key([WalletID |-> probe.wallet2, Balance |-> 0]),
            !.txKey = Transaction_Key([ZeroTransaction EXCEPT !.ID = probe.id]),
            !.txWalletKey = Transaction_WalletKey(
                [ZeroTransaction EXCEPT !.ID = probe.id, !.WalletID = probe.wallet2])]
    /\ UNCHANGED <<store, nextTxnTs, commits, now, calls, started, reader, history, envVars>>

KeySpec == InitKeys /\ [][DeriveKeys]_vars

----------------------------------------------------------------------------
(* The record codec on its own *)

\* the zero value of the Wallet struct
ZeroWallet == [WalletID |-> "", Balance |-> 0]

\* records handed to ToJSON: wallets, and transactions whose additional data is
\* nil, an empty map or a populated map and whose timestamp comes from
\* time.Now() (with a monotonic reading) or from a decoded record (without)
CodecWallets == [WalletID : {"", "a"}, Balance : {-1, 0, 1}]
CodecMaps == {NilMap, GoMap(<<>>), GoMap([game_id |-> "g1"])}
CodecTransactions ==
    [ID : TxIDs, WalletID : {"", "a"}, Amount : {-1, 0, 1}, Description : {"", "d"},
     AdditionalData : CodecMaps,
     Timestamp : [instant : 0..MaxTime, monotonic : BOOLEAN]]

CodecInit ==
    /\ store = <<>>
    /\ nextTxnTs = 1
    /\ commits = <<>>
    /\ now = 0
    /\ calls = <<>>
    /\ started = 0
    /\ reader = NoReader
    /\ history = {store}
    /\ NoEnv
    /\ probe \in {[pc |-> "in", type |-> "Wallet", value |-> w, decoded |-> ZeroWallet] :
                    w \in CodecWallets}
              \cup {[pc |-> "in", type |-> "Transaction", value |-> t,
                     decoded |-> ZeroTransaction] : t \in CodecTransactions}

\* w.ToJSON() followed by FromJSON of the bytes into a zero Wallet
WalletRoundTrip ==
    /\ probe.pc = "in" /\ probe.type = "Wallet"
    /\ probe' = [probe EXCEPT
            !.pc = "out",
            !.decoded = Wallet_FromJSON(ZeroWallet, Wallet_ToJSON(probe.value))]
    /\ UNCHANGED <<store, nextTxnTs, commits, now, calls, started, reader, history, envVars>>

\* t.ToJSON() followed by FromJSON of the bytes into a zero Transaction
TransactionRoundTrip ==
    /\ probe.pc = "in" /\ probe.type = "Transaction"
    /\ probe' = [probe EXCEPT
            !.pc = "out",
            !.decoded = Transaction_FromJSON(ZeroTransaction,
                                             Transaction_ToJSON(probe.value))]
    /\ UNCHANGED <<store, nextTxnTs, commits, now, calls, started, reader, history, envVars>>

CodecNext ==
    \/ WalletRoundTrip
    \/ TransactionRoundTrip

CodecSpec == CodecInit /\ [][CodecNext]_vars

----------------------------------------------------------------------------
(* One caller: calls that run one after the other *)

\* the calls of one behaviour of QuerySpec
MaxQueryOps == 2

\* wallet ids as a caller may supply them (any path segment is accepted)
QueryWalletIDs == {"a", "b", "a:transaction:"}
QueryAmounts == {1, 2}

\* AddCurrency / RemoveCurrency from entry to return with no other call in
\* between; calls is the sequence of the calls made, each with its error and with
\* the balance and the number of listed transactions of its wallet on return
CallAlone(op, walletID, amount, description, additionalData) ==
    /\ IF InvalidAmount(amount)
       THEN /\ calls' = Append(calls,
                    [op |-> op, walletID |-> walletID, amount |-> amount,
                     err |-> ErrAmount,
                     balance |-> GetWalletBalance(store, walletID),
                     count |-> Len(CollectTransactions(store, walletID))])
            /\ UNCHANGED <<store, nextTxnTs, commits, now, history>>
       ELSE \E t1 \in {now, now + 1}, t2 \in {now, now + 1, now + 2} :
            LET tx   == NewTransaction(t1, t2, walletID,
                            IF op = "AddCurrency" THEN amount ELSE -amount,
                            description, additionalData)
                body == IF op = "AddCurrency"
                        THEN AddCurrencyBody(store, walletID, amount, tx)
                        ELSE RemoveCurrencyBody(store, walletID, amount, tx)
                r    == Update(store, body, nextTxnTs - 1)
            IN  /\ t1 <= t2 /\ t2 <= t1 + 1 /\ t2 <= MaxTime
                /\ now' = t2
                /\ store' = r.store
                /\ commits' = [k \in DOMAIN commits \cup r.written |->
                                  IF k \in r.written THEN nextTxnTs ELSE commits[k]]
                /\ nextTxnTs' = IF r.written # {} THEN nextTxnTs + 1 ELSE nextTxnTs
                /\ history' = IF r.written # {} THEN history \cup {r.store} ELSE history
                /\ calls' = Append(calls,
                        [op |-> op, walletID |-> walletID, amount |-> amount,
                         err |-> r.err,
                         balance |-> GetWalletBalance(r.store, walletID),
                         count |-> Len(CollectTransactions(r.store, walletID))])
    /\ reader' = NoReader
    /\ UNCHANGED <<started, probe, envVars>>

\* GetTransactionsByWallet from entry to return with no other call in between
ListAlone(walletID, limit, offset, sortBy, sortOrder) ==
    /\ reader' = [pc |-> "done", walletID |-> walletID, limit |-> limit,
                  offset |-> offset, sortBy |-> sortBy, sortOrder |-> sortOrder,
                  result |-> GetTransactionsByWallet(store, walletID, limit, offset,
                                                     sortBy, sortOrder)]
    /\ UNCHANGED <<store, nextTxnTs, commits, now, calls, started, probe, history,
                   envVars>>

\* a store opened on an empty directory
QueryInit ==
    /\ store = <<>>
    /\ nextTxnTs = 1
    /\ commits = <<>>
    /\ now = 0
    /\ calls = <<>>
    /\ started = 0
    /\ probe = NoProbe
    /\ reader = NoReader
    /\ history = {store}
    /\ NoEnv

QueryAddCurrency ==
    \E w \in QueryWalletIDs, a \in QueryAmounts, d \in Descriptions, ad \in AdditionalDatas :
        Len(calls) < MaxQueryOps /\ CallAlone("AddCurrency", w, a, d, ad)

QueryRemoveCurrency ==
    \E w \in QueryWalletIDs, a \in QueryAmounts, d \in Descriptions, ad \in AdditionalDatas :
        Len(calls) < MaxQueryOps /\ CallAlone("RemoveCurrency", w, a, d, ad)

QueryList ==
    \E w \in QueryWalletIDs, sortBy \in {"timestamp", "amount"}, sortOrder \in {"ASC", "DESC"} :
        reader.pc = "idle" /\ ListAlone(w, GoInt(50), GoInt(0), sortBy, sortOrder)

QueryNext ==
    \/ QueryAddCurrency
    \/ QueryRemoveCurrency
    \/ QueryList

QuerySpec == QueryInit /\ [][QueryNext]_vars

----------------------------------------------------------------------------
(* GetWallet and GetWalletBalance between the calls of one caller *)

\* wallet ids that are read: one the calls use, one no call uses, and ids whose
\* wallet key is the index key of a transaction of wallet "a"
GetWalletIDs ==
    {"a", "c", "a:transaction:" \o generateID(0), "a:transaction:" \o generateID(1)}

\* DB.GetWallet and DB.GetWalletBalance from entry to return with no other call
\* in between.  The error is nil: txn.Get fails with ErrKeyNotFound only, and
\* every stored value is a JSON object whose wallet_id is a string and whose
\* balance, when it has one, is a number, so json.Unmarshal succeeds
GetWalletAlone(walletID) ==
    /\ reader' = [pc |-> "done", walletID |-> walletID,
                  wallet |-> GetWallet(store, walletID), err |-> NoErr,
                  balance |-> GetWalletBalance(store, walletID)]
    /\ UNCHANGED <<store, nextTxnTs, commits, now, calls, started, probe, history,
                   envVars>>

WalletGet ==
    \E w \in GetWalletIDs : reader.pc = "idle" /\ GetWalletAlone(w)

WalletNext ==
    \/ QueryAddCurrency
    \/ QueryRemoveCurrency
    \/ WalletGet

WalletSpec == QueryInit /\ [][WalletNext]_vars

----------------------------------------------------------------------------
(* The credit and debit scenario on a fresh wallet *)

\* calls made one after the other on a store opened on an empty directory
MaxScenarioOps == 3
ScenarioWalletIDs == {"w"}
ScenarioAmounts == {50, 100, 1000}

ScenarioAddCurrency ==
    \E w \in ScenarioWalletIDs, a \in ScenarioAmounts, d \in Descriptions,
       ad \in AdditionalDatas :
        Len(calls) < MaxScenarioOps /\ CallAlone("AddCurrency", w, a, d, ad)

ScenarioRemoveCurrency ==
    \E w \in ScenarioWalletIDs, a \in ScenarioAmounts, d \in Descriptions,
       ad \in AdditionalDatas :
        Len(calls) < MaxScenarioOps /\ CallAlone("RemoveCurrency", w, a, d, ad)

ScenarioNext ==
    \/ ScenarioAddCurrency
    \/ ScenarioRemoveCurrency

ScenarioSpec == QueryInit /\ [][ScenarioNext]_vars

----------------------------------------------------------------------------
(* GetTransactionsByWallet on ledgers of one wallet *)

\* the number of calls that built a short ledger
MaxList == 3

\* signed amounts (a credit or a debit) and clock readings of the calls
ListAmounts == {-1, 1, 2}
ListTimes == {0, 1}

RECURSIVE LedgerAfter(_, _, _, _)
\* the store after the calls entries[i..] ran one after the other on s: call i
\* is AddCurrency(walletID, amount) or RemoveCurrency(walletID, -amount), its
\* generateID() read the clock at i - 1 and its time.Now() at entries[i].time
LedgerAfter(s, walletID, entries, i) ==
    IF i > Len(entries) THEN s
    ELSE LET e    == entries[i]
             tx   == NewTransaction(i - 1, e.time, walletID, e.amount, "d",
                                    GoMap([game_id |-> "g1"]))
             body == IF e.amount > 0
                     THEN AddCurrencyBody(s, walletID, e.amount, tx)
                     ELSE RemoveCurrencyBody(s, walletID, -e.amount, tx)
         IN  IF body.err = NoErr
             THEN LedgerAfter(ApplyWrites(s, body.writes), walletID, entries, i + 1)
             ELSE LedgerAfter(s, walletID, entries, i + 1)

\* the calls of the short ledgers
ShortLedgers ==
    UNION {[1..n -> [amount : ListAmounts, time : ListTimes]] : n \in 0..MaxList}

\* credits whose amounts, or whose timestamps, repeat out of order in a ledger
\* of maxInsertion + 1 transactions
LongPattern == <<5, 5, 1, 1, 1, 1, 3, 9, 9, 9, 9, 9, 9>>
LongLedgers ==
    {[i \in 1..(maxInsertion + 1) |-> [amount |-> LongPattern[i], time |-> i]],
     [i \in 1..(maxInsertion + 1) |-> [amount |-> i, time |-> LongPattern[i]]],
     [i \in 1..(maxInsertion + 1) |-> [amount |-> i, time |-> i]]}

\* a store that holds the ledger of wallet "a"
SortInit ==
    /\ store \in {LedgerAfter(<<>>, "a", entries, 1) : entries \in ShortLedgers \cup LongLedgers}
    /\ nextTxnTs = 1
    /\ commits = <<>>
    /\ now = 0
    /\ calls = <<>>
    /\ started = 0
    /\ probe = NoProbe
    /\ reader = NoReader
    /\ history = {store}
    /\ NoEnv

\* limit and offset as the caller passes them
ListLimits == {GoInt(0), GoInt(1), GoInt(2), GoInt(3), MaxIntMinus(0)}
ListOffsets == {GoInt(0), GoInt(1), GoInt(2), GoInt(4)}
ListSortBys == {"timestamp", "amount", "id"}
ListSortOrders == {"ASC", "DESC", "asc"}

SortList ==
    \E limit \in ListLimits, offset \in ListOffsets,
       sortBy \in ListSortBys, sortOrder \in ListSortOrders :
        reader.pc = "idle" /\ ListAlone("a", limit, offset, sortBy, sortOrder)

SortSpec == SortInit /\ [][SortList]_vars

----------------------------------------------------------------------------
(* GetTransactionsByWallet next to running AddCurrency / RemoveCurrency calls *)

\* the wallet that is listed while calls on it run, and the amounts of the calls
ViewWalletIDs == {"a"}
ViewAmounts == {2}

\* d.db.View starts a read-only transaction: its reads see the committed state
\* as of the read timestamp, whatever commits after that
ViewBegin(walletID, limit, offset, sortBy, sortOrder) ==
    /\ reader.pc = "idle"
    /\ reader' = [pc |-> "view", walletID |-> walletID, limit |-> limit,
                  offset |-> offset, sortBy |-> sortBy, sortOrder |-> sortOrder,
                  readTs |-> nextTxnTs - 1, snapshot |-> store]
    /\ UNCHANGED <<store, nextTxnTs, commits, now, calls, started, probe, history,
                   envVars>>

\* a read transaction that also sees the Sets of an update transaction that
\* has not committed
ViewEnd_ReadsUncommitted ==
    LET running == {p \in Procs : calls[p].pc = "txn" /\ calls[p].op = "AddCurrency"}
        dirty   == IF running = {} THEN reader.snapshot
                   ELSE LET p == CHOOSE q \in running : TRUE
                        IN  ApplyWrites(reader.snapshot,
                                AddCurrencyBody(calls[p].snapshot, calls[p].walletID,
                                                calls[p].amount, calls[p].tx).writes)
    IN  /\ reader.pc = "view"
        /\ reader' = [pc |-> "done", walletID |-> reader.walletID,
                      limit |-> reader.limit, offset |-> reader.offset,
                      sortBy |-> reader.sortBy, sortOrder |-> reader.sortOrder,
                      readTs |-> reader.readTs,
                      result |-> GetTransactionsByWallet(dirty, reader.walletID,
                                     reader.limit, reader.offset, reader.sortBy,
                                     reader.sortOrder)]
        /\ UNCHANGED <<store, nextTxnTs, commits, now, calls, started, probe, history,
                       envVars>>

\* the iteration runs on the snapshot, then the call sorts, cuts and returns
ViewEnd ==
    /\ reader.pc = "view"
    /\ reader' = [pc |-> "done", walletID |-> reader.walletID, limit |-> reader.limit,
                  offset |-> reader.offset, sortBy |-> reader.sortBy,
                  sortOrder |-> reader.sortOrder, readTs |-> reader.readTs,
                  result |-> GetTransactionsByWallet(reader.snapshot, reader.walletID,
                                 reader.limit, reader.offset, reader.sortBy,
                                 reader.sortOrder)]
    /\ UNCHANGED <<store, nextTxnTs, commits, now, calls, started, probe, history,
                   envVars>>

GetTransactionsByWalletCall ==
    \E w \in ViewWalletIDs : ViewBegin(w, GoInt(50), GoInt(0), "timestamp", "ASC")

ViewAddCurrencyCall(p) ==
    \E w \in ViewWalletIDs, a \in ViewAmounts, d \in Descriptions, ad \in AdditionalDatas :
        CallEnter(p, "AddCurrency", w, a, d, ad)

ViewRemoveCurrencyCall(p) ==
    \E w \in ViewWalletIDs, a \in ViewAmounts, d \in Descriptions, ad \in AdditionalDatas :
        CallEnter(p, "RemoveCurrency", w, a, d, ad)

ViewNext ==
    \/ \E p \in Procs : ViewAddCurrencyCall(p)
    \/ \E p \in Procs : ViewRemoveCurrencyCall(p)
    \/ \E p \in Procs : ClockTimestamp(p)
    \/ \E p \in Procs : UpdateBegin(p)
    \/ \E p \in Procs : AddCurrencyCommit(p)
    \/ \E p \in Procs : RemoveCurrencyCommit(p)
    \/ GetTransactionsByWalletCall
    \/ ViewEnd

ViewSpec == Init /\ [][ViewNext]_vars

----------------------------------------------------------------------------
(* Paths of the data directories *)

RECURSIVE SplitPath(_, _)
\* the elements of path between the "/" separators, cur is the element begun
SplitPath(path, cur) ==
    IF path = "" THEN <<cur>>
    ELSE IF SubSeq(path, 1, 1) = "/"
         THEN <<cur>> \o SplitPath(SubSeq(path, 2, Len(path)), "")
         ELSE SplitPath(SubSeq(path, 2, Len(path)), cur \o SubSeq(path, 1, 1))

RECURSIVE CleanElements(_, _, _)
\* filepath.Clean element by element: out is the cleaned path so far
CleanElements(elements, out, rooted) ==
    IF elements = <<>> THEN out
    ELSE LET e    == Head(elements)
             rest == Tail(elements)
         IN  CASE e = "" \/ e = "." -> CleanElements(rest, out, rooted)
               [] e = ".." ->
                    IF out # <<>> /\ out[Len(out)] # ".."
                    THEN CleanElements(rest, SubSeq(out, 1, Len(out) - 1), rooted)
                    ELSE IF rooted THEN CleanElements(rest, out, rooted)
                         ELSE CleanElements(rest, Append(out, e), rooted)
               [] OTHER -> CleanElements(rest, Append(out, e), rooted)

RECURSIVE JoinElements(_)
\* strings.Join(elements, "/")
JoinElements(elements) ==
    IF elements = <<>> THEN ""
    ELSE IF Len(elements) = 1 THEN elements[1]
    ELSE elements[1] \o "/" \o JoinElements(Tail(elements))

\* filepath.Clean (Unix)
Clean(path) ==
    IF path = "" THEN "."
    ELSE LET rooted == SubSeq(path, 1, 1) = "/"
             joined == JoinElements(CleanElements(SplitPath(path, ""), <<>>, rooted))
         IN  IF rooted THEN "/" \o joined
             ELSE IF joined = "" THEN "." ELSE joined

\* filepath.Join(a, b): empty elements are ignored, the result is cleaned
Join(a, b) ==
    CASE a = "" /\ b = "" -> ""
      [] a = "" -> Clean(b)
      [] b = "" -> Clean(a)
      [] OTHER -> Clean(a \o "/" \o b)

----------------------------------------------------------------------------
(* The environment multiplexer (DBManager) *)

\* GetDB calls and ledger calls in one behaviour of EnvSpec
MaxGets == 3
MaxEnvOps == 1

\* the base directory main hands to NewDBManager: filepath.Join(".", "data")
BaseDir == Join(".", "data")
\* environment names as the X-ENV header may carry them
Environments == {"a", "b", "a/."}
EnvWalletIDs == {"w"}
EnvAmounts == {1}

\* a nil *DB
NoDB == [ptr |-> 0, dataDir |-> "", environment |-> ""]
\* no GetDB call in progress
IdleGet == [pc |-> "idle", environment |-> "", db |-> NoDB, err |-> NoErr,
            missed |-> FALSE]

\* badger.Open on a directory another open store holds
ErrDirLock == "Cannot acquire directory lock"
\* os.MkdirAll or badger.Open failing for a reason outside the program
ErrOpen == "open failed"

\* a lookup that never finds a connection
Exists_Never(connections, environment) == FALSE

\* db, exists := m.connections[environment]
Exists(connections, environment) == environment \in DOMAIN connections

\* a store that does not lock its directory
DirLocked_Never(d, dataDir) == FALSE

\* Badger holds an exclusive lock on the directory of an open store
DirLocked(d, dataDir) == dataDir \in DOMAIN d /\ d[dataDir].locked

\* a NewDB that hands out a DB together with its error
NewDB_DBWithError(d, dataDir, environment, ptr, fails) ==
    IF fails \/ DirLocked(d, dataDir)
    THEN [db   |-> [ptr |-> ptr, dataDir |-> dataDir, environment |-> environment],
          err  |-> IF fails THEN ErrOpen ELSE ErrDirLock,
          disk |-> d]
    ELSE [db   |-> [ptr |-> ptr, dataDir |-> dataDir, environment |-> environment],
          err  |-> NoErr,
          disk |-> [x \in DOMAIN d \cup {dataDir} |->
                       IF x = dataDir
                       THEN [locked |-> TRUE,
                             store  |-> IF x \in DOMAIN d THEN d[x].store ELSE <<>>]
                       ELSE d[x]]]

\* NewDB(dataDir, environment) on the disk d: ptr is the address of the new DB,
\* fails says that the directory cannot be created or opened
NewDB(d, dataDir, environment, ptr, fails) ==
    IF fails THEN [db |-> NoDB, err |-> ErrOpen, disk |-> d]
    ELSE IF DirLocked(d, dataDir) THEN [db |-> NoDB, err |-> ErrDirLock, disk |-> d]
    ELSE [db   |-> [ptr |-> ptr, dataDir |-> dataDir, environment |-> environment],
          err  |-> NoErr,
          disk |-> [x \in DOMAIN d \cup {dataDir} |->
                       IF x = dataDir
                       THEN [locked |-> TRUE,
                             store  |-> IF x \in DOMAIN d THEN d[x].store ELSE <<>>]
                       ELSE d[x]]]

\* a caller enters GetDB(environment)
GetDBCall(p) ==
    \E environment \in Environments :
        /\ gets[p].pc \in {"idle", "done"}
        /\ mgr.calls < MaxGets
        /\ gets' = [gets EXCEPT ![p] = [IdleGet EXCEPT !.pc = "rlock",
                                                      !.environment = environment]]
        /\ mgr' = [mgr EXCEPT !.calls = @ + 1]
        /\ UNCHANGED <<store, nextTxnTs, commits, now, calls, started, probe, reader,
                       history, disk>>

\* m.mu.RLock()
RLock(p) ==
    /\ gets[p].pc = "rlock"
    /\ mgr.writer = "none"
    /\ mgr' = [mgr EXCEPT !.readers = @ \cup {p}]
    /\ gets' = [gets EXCEPT ![p].pc = "rlocked"]
    /\ UNCHANGED <<store, nextTxnTs, commits, now, calls, started, probe, reader,
                   history, disk>>

\* the lookup under the read lock, RUnlock, and the return of a connection found
ReadConnections(p) ==
    /\ gets[p].pc = "rlocked"
    /\ mgr' = [mgr EXCEPT !.readers = @ \ {p}]
    /\ gets' = IF Exists(mgr.connections, gets[p].environment)
               THEN [gets EXCEPT ![p].pc = "done",
                                 ![p].db = mgr.connections[gets[p].environment]]
               ELSE [gets EXCEPT ![p].pc = "lock", ![p].missed = TRUE]
    /\ UNCHANGED <<store, nextTxnTs, commits, now, calls, started, probe, reader,
                   history, disk>>

\* m.mu.Lock()
Lock(p) ==
    /\ gets[p].pc = "lock"
    /\ mgr.writer = "none" /\ mgr.readers = {}
    /\ mgr' = [mgr EXCEPT !.writer = p]
    /\ gets' = [gets EXCEPT ![p].pc = "locked"]
    /\ UNCHANGED <<store, nextTxnTs, commits, now, calls, started, probe, reader,
                   history, disk>>

\* under the write lock: the second lookup, NewDB, the registration, and the
\* deferred Unlock on return
OpenUnderLock(p) ==
    /\ gets[p].pc = "locked"
    /\ LET environment == gets[p].environment
       IN  IF Exists(mgr.connections, environment)
           THEN /\ gets' = [gets EXCEPT ![p].pc = "done",
                                        ![p].db = mgr.connections[environment]]
                /\ mgr' = [mgr EXCEPT !.writer = "none"]
                /\ disk' = disk
           ELSE \E fails \in BOOLEAN :
                LET r == NewDB(disk, Join(BaseDir, environment), environment,
                               mgr.allocated + 1, fails)
                IN  /\ disk' = r.disk
                    /\ gets' = [gets EXCEPT ![p].pc = "done", ![p].db = r.db,
                                            ![p].err = r.err]
                    /\ mgr' = IF r.err # NoErr
                              THEN [mgr EXCEPT !.writer = "none"]
                              ELSE [mgr EXCEPT
                                      !.writer = "none",
                                      !.allocated = @ + 1,
                                      !.opened[environment] = @ + 1,
                                      !.connections =
                                          [e \in DOMAIN mgr.connections \cup {environment}
                                              |-> IF e = environment THEN r.db
                                                  ELSE mgr.connections[e]]]
    /\ UNCHANGED <<store, nextTxnTs, commits, now, calls, started, probe, reader, history>>

\* a caller that got a DB from GetDB runs AddCurrency / RemoveCurrency on it;
\* calls is the last such call
EnvCall(p, op, walletID, amount, description, additionalData) ==
    /\ gets[p].pc = "done" /\ gets[p].err = NoErr
    /\ started < MaxEnvOps
    /\ started' = started + 1
    /\ \E t1 \in {now, now + 1}, t2 \in {now, now + 1, now + 2} :
        LET dataDir == gets[p].db.dataDir
            s    == disk[dataDir].store
            tx   == NewTransaction(t1, t2, walletID,
                        IF op = "AddCurrency" THEN amount ELSE -amount,
                        description, additionalData)
            body == IF op = "AddCurrency"
                    THEN AddCurrencyBody(s, walletID, amount, tx)
                    ELSE RemoveCurrencyBody(s, walletID, amount, tx)
            r    == IF InvalidAmount(amount)
                    THEN [err |-> ErrAmount, store |-> s, written |-> {}]
                    ELSE Update(s, body, 0)
        IN  /\ t1 <= t2 /\ t2 <= t1 + 1 /\ t2 <= MaxTime
            /\ now' = IF InvalidAmount(amount) THEN now ELSE t2
            /\ disk' = [disk EXCEPT ![dataDir].store = r.store]
            /\ calls' = [op |-> op, environment |-> gets[p].environment,
                         walletID |-> walletID, amount |-> amount, err |-> r.err]
    /\ UNCHANGED <<store, nextTxnTs, commits, probe, reader, history, mgr, gets>>

EnvAddCurrency(p) ==
    \E w \in EnvWalletIDs, a \in EnvAmounts, d \in Descriptions, ad \in AdditionalDatas :
        EnvCall(p, "AddCurrency", w, a, d, ad)

EnvRemoveCurrency(p) ==
    \E w \in EnvWalletIDs, a \in EnvAmounts, d \in Descriptions, ad \in AdditionalDatas :
        EnvCall(p, "RemoveCurrency", w, a, d, ad)

\* NewDBManager(BaseDir) on an empty base directory
EnvInit ==
    /\ store = <<>>
    /\ nextTxnTs = 1
    /\ commits = <<>>
    /\ now = 0
    /\ calls = <<>>
    /\ started = 0
    /\ probe = NoProbe
    /\ reader = NoReader
    /\ history = {store}
    /\ mgr = [connections |-> <<>>, readers |-> {}, writer |-> "none",
              calls |-> 0, allocated |-> 0, opened |-> [e \in Environments |-> 0]]
    /\ gets = [p \in Procs |-> IdleGet]
    /\ disk = <<>>

EnvNext ==
    \/ \E p \in Procs : GetDBCall(p)
    \/ \E p \in Procs : RLock(p)
    \/ \E p \in Procs : ReadConnections(p)
    \/ \E p \in Procs : Lock(p)
    \/ \E p \in Procs : OpenUnderLock(p)
    \/ \E p \in Procs : EnvAddCurrency(p)
    \/ \E p \in Procs : EnvRemoveCurrency(p)

EnvSpec == EnvInit /\ [][EnvNext]_vars

----------------------------------------------------------------------------
(* DBManager.Close *)

\* GetDB calls and Close calls in one behaviour of CloseSpec
MaxCloseGets == 3
MaxCloses == 1
CloseEnvironments == {"a", "b", "c"}

\* the error of a failing db.Close() of the DB of environment e
ErrClose(e) == "close " \o e

\* no Close call in progress
NoClose == [pc |-> "idle", registered |-> {}, remaining |-> {}, log |-> <<>>,
            lastErr |-> NoErr, err |-> NoErr]

\* a loop that keeps the first error
KeepLast_First(lastErr, err) == IF lastErr # NoErr THEN lastErr ELSE err

\* if err := db.Close(); err != nil { lastErr = err }
KeepLast(lastErr, err) == IF err # NoErr THEN err ELSE lastErr

\* a GetDB that opens the store again for a name it has registered
GetDB_Reopens(m, d, environment, fails) ==
    LET r == NewDB(d, Join(BaseDir, environment), environment, m.allocated + 1, fails)
    IN  IF r.err # NoErr
        THEN [db |-> NoDB, err |-> r.err, disk |-> r.disk,
              mgr |-> [m EXCEPT !.calls = @ + 1]]
        ELSE [db |-> r.db, err |-> NoErr, disk |-> r.disk,
              mgr |-> [m EXCEPT !.calls = @ + 1,
                                !.allocated = @ + 1,
                                !.opened[environment] = @ + 1,
                                !.connections = (environment :> r.db) @@ @]]

\* m.GetDB(environment) from entry to return with no other call in between, on
\* the manager m and the disk d: the DB and the error returned, and the
\* manager and the disk left behind
GetDB(m, d, environment, fails) ==
    IF Exists(m.connections, environment)
    THEN [db |-> m.connections[environment], err |-> NoErr, disk |-> d,
          mgr |-> [m EXCEPT !.calls = @ + 1]]
    ELSE LET r == NewDB(d, Join(BaseDir, environment), environment,
                        m.allocated + 1, fails)
         IN  IF r.err # NoErr
             THEN [db |-> NoDB, err |-> r.err, disk |-> r.disk,
                   mgr |-> [m EXCEPT !.calls = @ + 1]]
             ELSE [db |-> r.db, err |-> NoErr, disk |-> r.disk,
                   mgr |-> [m EXCEPT !.calls = @ + 1,
                                     !.allocated = @ + 1,
                                     !.opened[environment] = @ + 1,
                                     !.connections = (environment :> r.db) @@ @]]

\* a caller of GetDB(environment) while no other call runs; reader is the call
\* and what it returned
GetDBAlone(environment, fails) ==
    /\ mgr.writer = "none"
    /\ mgr.calls < MaxCloseGets
    /\ LET r == GetDB(mgr, disk, environment, fails)
       IN  /\ mgr' = r.mgr
           /\ disk' = r.disk
           /\ reader' = [pc |-> "done", environment |-> environment,
                         db |-> r.db, err |-> r.err, closes |-> mgr.closes]
    /\ UNCHANGED <<store, nextTxnTs, commits, now, calls, started, probe, history, gets>>

CloseGetDB ==
    \E environment \in CloseEnvironments, fails \in BOOLEAN :
        GetDBAlone(environment, fails)

\* a caller enters Close: m.mu.Lock(), and the range over the connections starts
CloseCall ==
    /\ mgr.writer = "none" /\ mgr.readers = {}
    /\ mgr.closes < MaxCloses
    /\ mgr' = [mgr EXCEPT !.writer = "close", !.closes = @ + 1]
    /\ gets' = [NoClose EXCEPT !.pc = "range",
                               !.registered = DOMAIN mgr.connections,
                               !.remaining = DOMAIN mgr.connections]
    /\ UNCHANGED <<store, nextTxnTs, commits, now, calls, started, probe, reader,
                   history, disk>>

\* one iteration of the range (the order of a map range is not specified):
\* db.Close(), which releases the directory and may fail
CloseOne ==
    /\ gets.pc = "range"
    /\ \E e \in gets.remaining, fails \in BOOLEAN :
        LET err == IF fails THEN ErrClose(e) ELSE NoErr
        IN  /\ gets' = [gets EXCEPT
                    !.remaining = @ \ {e},
                    !.log = Append(@, [environment |-> e, err |-> err]),
                    !.lastErr = KeepLast(@, err)]
            /\ disk' = [disk EXCEPT ![mgr.connections[e].dataDir].locked = FALSE]
    /\ UNCHANGED <<store, nextTxnTs, commits, now, calls, started, probe, reader,
                   history, mgr>>

\* the range is over: return lastErr, and the deferred m.mu.Unlock()
CloseReturn ==
    /\ gets.pc = "range" /\ gets.remaining = {}
    /\ gets' = [gets EXCEPT !.pc = "done", !.err = gets.lastErr]
    /\ mgr' = [mgr EXCEPT !.writer = "none"]
    /\ UNCHANGED <<store, nextTxnTs, commits, now, calls, started, probe, reader,
                   history, disk>>

\* NewDBManager(BaseDir) on an empty base directory
CloseInit ==
    /\ store = <<>>
    /\ nextTxnTs = 1
    /\ commits = <<>>
    /\ now = 0
    /\ calls = <<>>
    /\ started = 0
    /\ probe = NoProbe
    /\ reader = NoReader
    /\ history = {store}
    /\ mgr = [connections |-> <<>>, readers |-> {}, writer |-> "none",
              calls |-> 0, allocated |-> 0, opened |-> [e \in CloseEnvironments |-> 0],
              closes |-> 0]
    /\ gets = NoClose
    /\ disk = <<>>

CloseNext ==
    \/ CloseGetDB
    \/ CloseCall
    \/ CloseOne
    \/ CloseReturn

CloseSpec == CloseInit /\ [][CloseNext]_vars

----------------------------------------------------------------------------
(* Environment names and store directories *)

\* environment names as the X-ENV header may carry them: a plain name and
\* names with ".", ".." and "/"
DirEnvironments == {"a", "a/.", ".", ".."}

\* GetDB(environment) for one of these names
DirGetDB ==
    \E environment \in DirEnvironments, fails \in BOOLEAN :
        GetDBAlone(environment, fails)

\* NewDBManager(BaseDir) on an empty base directory
DirInit ==
    /\ store = <<>>
    /\ nextTxnTs = 1
    /\ commits = <<>>
    /\ now = 0
    /\ calls = <<>>
    /\ started = 0
    /\ probe = NoProbe
    /\ reader = NoReader
    /\ history = {store}
    /\ mgr = [connections |-> <<>>, readers |-> {}, writer |-> "none",
              calls |-> 0, allocated |-> 0, opened |-> [e \in DirEnvironments |-> 0],
              closes |-> 0]
    /\ gets = NoClose
    /\ disk = <<>>

DirNext ==
    \/ DirGetDB
    \/ CloseCall
    \/ CloseOne
    \/ CloseReturn

DirSpec == DirInit /\ [][DirNext]_vars

----------------------------------------------------------------------------
(* The environment of a request *)

\* requests in one behaviour
MaxRequests == 4

\* the values of the X-ENV header of a request, and the headers of a request:
\* without the header or with one of the values
RequestEnvironments == {"", "a", "b", "production"}
RequestHeaders == {<<>>} \cup {"X-ENV" :> e : e \in RequestEnvironments}

EnvironmentKey == "environment"
DefaultEnvironment == "production"

\* c.GetHeader(key): the empty string for a header the request does not carry
GetHeader(headers, key) == IF key \in DOMAIN headers THEN headers[key] ELSE ""

\* a middleware that stores the header as it came
EnvironmentMiddleware_NoDefault(headers, context) ==
    (EnvironmentKey :> GetHeader(headers, "X-ENV")) @@ context

\* EnvironmentMiddleware: c.Set(EnvironmentKey, env) on the context of the
\* request, which then goes on to the handler
EnvironmentMiddleware(headers, context) ==
    LET env == GetHeader(headers, "X-ENV")
    IN  (EnvironmentKey :> IF env = "" THEN DefaultEnvironment ELSE env) @@ context

\* GetEnvironment(c)
GetEnvironment(context) ==
    IF EnvironmentKey \notin DOMAIN context
    THEN DefaultEnvironment
    ELSE context[EnvironmentKey]

\* the context a handler of the router runs with: the router passes every
\* request through EnvironmentMiddleware first
RouterContext(headers) == EnvironmentMiddleware(headers, <<>>)

\* Handler.getDB for a request with these headers; reader is the request and
\* what getDB returned
getDB(headers, fails) ==
    /\ mgr.writer = "none"
    /\ mgr.calls < MaxRequests
    /\ LET env == GetEnvironment(RouterContext(headers))
           r   == GetDB(mgr, disk, env, fails)
       IN  /\ mgr' = r.mgr
           /\ disk' = r.disk
           /\ reader' = [pc |-> "done", headers |-> headers, db |-> r.db, err |-> r.err]
    /\ UNCHANGED <<store, nextTxnTs, commits, now, calls, started, probe, history, gets>>

\* NewDBManager(BaseDir) on an empty base directory
RequestInit ==
    /\ store = <<>>
    /\ nextTxnTs = 1
    /\ commits = <<>>
    /\ now = 0
    /\ calls = <<>>
    /\ started = 0
    /\ probe = NoProbe
    /\ reader = NoReader
    /\ history = {store}
    /\ mgr = [connections |-> <<>>, readers |-> {}, writer |-> "none",
              calls |-> 0, allocated |-> 0,
              opened |-> [e \in RequestEnvironments |-> 0]]
    /\ gets = NoClose
    /\ disk = <<>>

RequestNext == \E headers \in RequestHeaders, fails \in BOOLEAN : getDB(headers, fails)

RequestSpec == RequestInit /\ [][RequestNext]_vars

----------------------------------------------------------------------------
(* The credit and debit handlers of the HTTP adapter *)

\* total number of credit/debit requests in one behaviour
MaxHandlerOps == 2

\* the wallet_id path parameter, the amount and the description of a request
HandlerWalletIDs == {"a", ""}
HandlerAmounts == {0, 1, 2}
HandlerDescriptions == {"d", ""}

StatusOK == 200
StatusBadRequest == 400
StatusInternalServerError == 500

\* no wallet in the response
NoWallet == <<>>

\* a request handler that is not running: the fields of the ledger call it
\* makes, the status it answers with and the wallet of its response
IdleHandler ==
    [pc |-> "idle", op |-> "none", walletID |-> "", amount |-> 0, tx |-> NoTx,
     readTs |-> 0, snapshot |-> NoSnapshot, readVer |-> 0, readBalance |-> 0,
     commitTs |-> 0, err |-> NoErr, status |-> 0, wallet |-> NoWallet]

\* c.ShouldBindJSON fails: amount is `required,gt=0`, description is `required`
BindFails(amount, description) == amount <= 0 \/ description = ""

\* the handler answers status without a ledger call
HandlerReject(p, op, walletID, amount, status) ==
    [calls EXCEPT ![p] = [IdleHandler EXCEPT !.pc = "done", !.op = op,
                                             !.walletID = walletID,
                                             !.amount = amount, !.status = status]]

\* Handler.AddCurrency / Handler.RemoveCurrency up to the start of the update
\* transaction of database.AddCurrency / database.RemoveCurrency: the checks of
\* the request, then the Transaction literal begun with ID: generateID(), which
\* reads the clock at t1 (ClockTimestamp completes it).  getDB returns the one
\* store of the run
HandlerEnter(p, op, walletID, amount, description, additionalData) ==
    /\ calls[p].pc \in {"idle", "done"}
    /\ \A q \in Procs : Before(q, p) => calls[q].pc \notin {"idle", "done"}
    /\ started < MaxHandlerOps
    /\ started' = started + 1
    /\ IF walletID = "" \/ BindFails(amount, description) \/ amount <= 0
       THEN /\ calls' = HandlerReject(p, op, walletID, amount, StatusBadRequest)
            /\ now' = now
       ELSE \E t1 \in {now, now + 1} :
            /\ t1 <= MaxTime
            /\ now' = t1
            /\ calls' = [calls EXCEPT ![p] =
                    [IdleHandler EXCEPT !.pc = "literal", !.op = op,
                                        !.walletID = walletID, !.amount = amount,
                                        !.tx = [t1 |-> t1, description |-> description,
                                                additionalData |-> additionalData]]]
    /\ UNCHANGED <<store, nextTxnTs, commits, probe, reader, history, envVars>>

HandlerAddCurrency(p) ==
    \E w \in HandlerWalletIDs, a \in HandlerAmounts, d \in HandlerDescriptions,
       ad \in AdditionalDatas :
        HandlerEnter(p, "AddCurrency", w, a, d, ad)

HandlerRemoveCurrency(p) ==
    \E w \in HandlerWalletIDs, a \in HandlerAmounts, d \in HandlerDescriptions,
       ad \in AdditionalDatas :
        HandlerEnter(p, "RemoveCurrency", w, a, d, ad)

\* a handler that answers every error of its ledger call alike
ErrorStatus_AlwaysServerError(op, err) == StatusInternalServerError

\* the status a handler answers with when its ledger call returned err
ErrorStatus(op, err) ==
    IF op = "RemoveCurrency" /\ err = ErrInsufficientFunds
    THEN StatusBadRequest
    ELSE StatusInternalServerError

\* the ledger call of the handler returns: with an error the handler answers at
\* once, with a Transaction it goes on to read the wallet
HandlerUpdateEnd(p, body) ==
    LET r == Update(store, body, calls[p].readTs)
    IN  /\ store' = r.store
        /\ commits' = [k \in DOMAIN commits \cup r.written |->
                          IF k \in r.written THEN nextTxnTs ELSE commits[k]]
        /\ nextTxnTs' = IF r.written # {} THEN nextTxnTs + 1 ELSE nextTxnTs
        /\ history' = IF r.written # {} THEN history \cup {r.store} ELSE history
        /\ calls' = IF r.err # NoErr
                    THEN [calls EXCEPT ![p].pc = "done", ![p].err = r.err,
                                       ![p].tx = NoTx, ![p].readTs = 0,
                                       ![p].snapshot = NoSnapshot,
                                       ![p].status = ErrorStatus(calls[p].op, r.err)]
                    ELSE [calls EXCEPT ![p].pc = "wallet", ![p].readTs = 0,
                                       ![p].snapshot = NoSnapshot,
                                       ![p].commitTs = nextTxnTs]
        /\ UNCHANGED <<now, started, probe, reader, envVars>>

HandlerAddCurrencyCommit(p) ==
    /\ calls[p].pc = "txn"
    /\ calls[p].op = "AddCurrency"
    /\ HandlerUpdateEnd(p, AddCurrencyBody(calls[p].snapshot, calls[p].walletID,
                                           calls[p].amount, calls[p].tx))

HandlerRemoveCurrencyCommit(p) ==
    /\ calls[p].pc = "txn"
    /\ calls[p].op = "RemoveCurrency"
    /\ HandlerUpdateEnd(p, RemoveCurrencyBody(calls[p].snapshot, calls[p].walletID,
                                              calls[p].amount, calls[p].tx))

\* "Get updated wallet": database.GetWallet in a read transaction of its own,
\* then the response with the Transaction and that wallet
HandlerGetWallet(p) ==
    /\ calls[p].pc = "wallet"
    /\ calls' = [calls EXCEPT ![p].pc = "done", ![p].status = StatusOK,
                              ![p].wallet = GetWallet(store, calls[p].walletID)]
    /\ UNCHANGED <<store, nextTxnTs, commits, now, started, probe, reader, history,
                   envVars>>

\* a store holding wallet "a" with its funding credit; no request in progress
HandlerInit ==
    /\ store = ApplyWrites(<<>>, AddCurrencyBody(<<>>, "a", FundingAmount, FundingTx).writes)
    /\ nextTxnTs = 2
    /\ commits = [k \in WriteKeys(AddCurrencyBody(<<>>, "a", FundingAmount, FundingTx).writes)
                      |-> 1]
    /\ now = 0
    /\ calls = [p \in Procs |-> IdleHandler]
    /\ started = 0
    /\ probe = NoProbe
    /\ reader = NoReader
    /\ history = {store}
    /\ NoEnv

HandlerNext ==
    \/ \E p \in Procs : HandlerAddCurrency(p)
    \/ \E p \in Procs : HandlerRemoveCurrency(p)
    \/ \E p \in Procs : ClockTimestamp(p)
    \/ \E p \in Procs : UpdateBegin(p)
    \/ \E p \in Procs : HandlerAddCurrencyCommit(p)
    \/ \E p \in Procs : HandlerRemoveCurrencyCommit(p)
    \/ \E p \in Procs : HandlerGetWallet(p)

HandlerSpec == HandlerInit /\ [][HandlerNext]_vars

----------------------------------------------------------------------------
(* The HTTP adapter: bearer token check and request parameters *)

StatusUnauthorized == 401

\* the status of a request the middleware lets through to its handler
Passed == 0

\* strings.TrimPrefix(s, prefix)
TrimPrefix(s, prefix) ==
    IF HasPrefix(s, prefix) THEN SubSeq(s, Len(prefix) + 1, Len(s)) ELSE s

\* a middleware that skips the check for an unset API_TOKEN
AuthMiddleware_UnsetTokenMatches(authHeader, expectedToken) ==
    IF authHeader = "" THEN StatusUnauthorized
    ELSE IF ~HasPrefix(authHeader, "Bearer ") THEN StatusUnauthorized
    ELSE IF TrimPrefix(authHeader, "Bearer ") # expectedToken THEN StatusUnauthorized
    ELSE Passed

\* AuthMiddleware on a request whose Authorization header is authHeader ("" when
\* the header is absent) while os.Getenv("API_TOKEN") is expectedToken ("" when
\* the variable is unset): the status it aborts with, or Passed for c.Next()
AuthMiddleware(authHeader, expectedToken) ==
    IF authHeader = "" THEN StatusUnauthorized
    ELSE IF ~HasPrefix(authHeader, "Bearer ") THEN StatusUnauthorized
    ELSE IF expectedToken = "" THEN StatusInternalServerError
    ELSE IF TrimPrefix(authHeader, "Bearer ") # expectedToken THEN StatusUnauthorized
    ELSE Passed

\* c.DefaultQuery(key, defaultValue): query maps the keys of the query string
\* to their values
DefaultQuery(query, key, defaultValue) ==
    IF key \in DOMAIN query THEN query[key] ELSE defaultValue

IsDigit(c) == c \in {"0", "1", "2", "3", "4", "5", "6", "7", "8", "9"}

DigitValue(c) ==
    CASE c = "0" -> 0 [] c = "1" -> 1 [] c = "2" -> 2 [] c = "3" -> 3 [] c = "4" -> 4
      [] c = "5" -> 5 [] c = "6" -> 6 [] c = "7" -> 7 [] c = "8" -> 8 [] c = "9" -> 9

RECURSIVE DecimalValue(_, _)
\* the number the first n digits of s denote
DecimalValue(s, n) ==
    IF n = 0 THEN 0
    ELSE DecimalValue(s, n - 1) * 10 + DigitValue(SubSeq(s, n, n))

RECURSIVE StripLeadingZeros(_)
StripLeadingZeros(s) ==
    IF Len(s) > 1 /\ SubSeq(s, 1, 1) = "0"
    THEN StripLeadingZeros(SubSeq(s, 2, Len(s)))
    ELSE s

ErrSyntax == "invalid syntax"
ErrRange == "value out of range"

RECURSIVE DigitPrefix(_, _)
\* the number of digits s has from position i on before its first other byte
DigitPrefix(s, i) ==
    IF i > Len(s) \/ ~IsDigit(SubSeq(s, i, i)) THEN 0
    ELSE 1 + DigitPrefix(s, i + 1)

\* the number the digits a .. b of d denote
DigitsValue(d, a, b) == IF a > b THEN 0 ELSE DecimalValue(SubSeq(d, a, b), b - a + 1)

\* the limbs of the number a string of at most 20 digits denotes
Magnitude(d) ==
    LET n == Len(d)
    IN  <<DigitsValue(d, 1, n - 18),
          DigitsValue(d, IF n > 18 THEN n - 17 ELSE 1, n - 9),
          DigitsValue(d, IF n > 9 THEN n - 8 ELSE 1, n)>>

\* strconv.Atoi(s) on a 64 bit platform: an optional sign followed by decimal
\* digits.  The digits are read from the left: the value running over 64 bits
\* ends the loop with ErrRange before a later byte is looked at, a byte that is
\* no digit ends it with ErrSyntax; a value outside [MinInt, MaxInt] is ErrRange.
\* ErrRange comes with MaxInt or MinInt, ErrSyntax with 0
Atoi(s) ==
    LET signed == Len(s) > 0 /\ SubSeq(s, 1, 1) \in {"+", "-"}
        neg    == Len(s) > 0 /\ SubSeq(s, 1, 1) = "-"
        digits == IF signed THEN SubSeq(s, 2, Len(s)) ELSE s
        k      == DigitPrefix(digits, 1)
        d      == StripLeadingZeros(SubSeq(digits, 1, k))
        mag    == Magnitude(d)
        limit  == IF neg THEN MinIntPlus(0) ELSE MaxIntMinus(0)
    IN  IF Len(d) > 20 \/ (Len(d) = 20 /\ ~LimbLess(mag, Two64))
        THEN [err |-> ErrRange, n |-> limit]
        ELSE IF k = 0 \/ k < Len(digits)
        THEN [err |-> ErrSyntax, n |-> GoInt(0)]
        ELSE IF (~neg /\ ~LimbLess(mag, Two63)) \/ (neg /\ LimbLess(Two63, mag))
        THEN [err |-> ErrRange, n |-> limit]
        ELSE [err |-> NoErr,
              n |-> FromLimbs(IF neg THEN Carry(LimbSub(Two63, mag))
                              ELSE Carry(LimbAdd(Two63, mag)))]

\* the limit GetTransactionHistory passes on for the query value limitStr
HistoryLimit(limitStr) ==
    LET r == Atoi(limitStr)
    IN  IF r.err # NoErr \/ ~IntLess(GoInt(0), r.n) THEN GoInt(50) ELSE r.n

\* the offset GetTransactionHistory passes on for the query value offsetStr
HistoryOffset(offsetStr) ==
    LET r == Atoi(offsetStr)
    IN  IF r.err # NoErr \/ IntLess(r.n, GoInt(0)) THEN GoInt(0) ELSE r.n

\* the sort_by GetTransactionHistory passes on
HistorySortBy(sortBy) ==
    IF sortBy # "timestamp" /\ sortBy # "amount" THEN "timestamp" ELSE sortBy

\* a default of ascending order
HistorySortOrder_DefaultAscending(sortOrder) ==
    IF sortOrder # "ASC" /\ sortOrder # "DESC" THEN "ASC" ELSE sortOrder

\* the sort_order GetTransactionHistory passes on
HistorySortOrder(sortOrder) ==
    IF sortOrder # "ASC" /\ sortOrder # "DESC" THEN "DESC" ELSE sortOrder

----------------------------------------------------------------------------
(* Requests under /api/v1, one after the other *)

\* reader is the request being served, with its response once it has one

\* ledger calls made through the adapter in one behaviour
MaxApiOps == 2

\* Authorization headers ("" when absent) and values of API_TOKEN ("" when unset)
ApiAuthHeaders == {"", "secret", "Bearer secret", "Bearer wrong", "Bearer "}
ApiTokens == {"", "secret"}
ApiWalletIDs == {"a"}
ApiAmounts == {0, 1}

\* query strings of the transaction history request: pagination parameters,
\* sort parameters, or none
HistoryLimits == {"0", "1", "2", "-1", "x", "", "9223372036854775807", "9223372036854775808"}
HistoryOffsets == {"0", "1", "-1", "x"}
HistorySortBys == {"timestamp", "amount", "id", ""}
HistorySortOrders == {"ASC", "DESC", "asc", ""}
HistoryQueries ==
    {<<>>}
    \cup {("limit" :> l) : l \in HistoryLimits}
    \cup {("offset" :> o) : o \in HistoryOffsets}
    \cup {("limit" :> l) @@ ("offset" :> o) : l \in HistoryLimits, o \in HistoryOffsets}
    \cup {("sort_by" :> b) : b \in HistorySortBys}
    \cup {("sort_order" :> o) : o \in HistorySortOrders}
    \cup {("sort_by" :> b) @@ ("sort_order" :> o) : b \in HistorySortBys, o \in HistorySortOrders}

NoBody == <<>>

\* a request and its response: ledger is the sequence of the ledger calls the
\* request made
Response(route, walletID, authHeader, apiToken, query, status, ledger, body) ==
    [pc |-> "done", route |-> route, walletID |-> walletID,
     authHeader |-> authHeader, apiToken |-> apiToken, query |-> query,
     status |-> status, ledger |-> ledger, body |-> body]

\* POST /api/v1/wallets/:wallet_id/add and /remove: AuthMiddleware, then
\* Handler.AddCurrency / Handler.RemoveCurrency from entry to response
ApiPost(op, walletID, authHeader, apiToken, amount, description, additionalData) ==
    /\ reader.pc = "idle"
    /\ LET auth == AuthMiddleware(authHeader, apiToken)
       IN  IF auth # Passed
           THEN /\ reader' = Response(op, walletID, authHeader, apiToken, <<>>, auth,
                                      <<>>, NoBody)
                /\ UNCHANGED <<store, nextTxnTs, commits, now, calls, history>>
           ELSE IF walletID = "" \/ BindFails(amount, description) \/ amount <= 0
           THEN /\ reader' = Response(op, walletID, authHeader, apiToken, <<>>,
                                      StatusBadRequest, <<>>, NoBody)
                /\ UNCHANGED <<store, nextTxnTs, commits, now, calls, history>>
           ELSE \E t1 \in {now, now + 1}, t2 \in {now, now + 1, now + 2} :
                LET tx   == NewTransaction(t1, t2, walletID,
                                IF op = "AddCurrency" THEN amount ELSE -amount,
                                description, additionalData)
                    body == IF op = "AddCurrency"
                            THEN AddCurrencyBody(store, walletID, amount, tx)
                            ELSE RemoveCurrencyBody(store, walletID, amount, tx)
                    r    == Update(store, body, nextTxnTs - 1)
                IN  /\ Len(calls) < MaxApiOps
                    /\ t1 <= t2 /\ t2 <= t1 + 1 /\ t2 <= MaxTime
                    /\ now' = t2
                    /\ store' = r.store
                    /\ commits' = [k \in DOMAIN commits \cup r.written |->
                                      IF k \in r.written THEN nextTxnTs ELSE commits[k]]
                    /\ nextTxnTs' = IF r.written # {} THEN nextTxnTs + 1 ELSE nextTxnTs
                    /\ history' = IF r.written # {} THEN history \cup {r.store} ELSE history
                    /\ calls' = Append(calls,
                            [op |-> op, walletID |-> walletID, amount |-> amount,
                             err |-> r.err,
                             balance |-> GetWalletBalance(r.store, walletID),
                             count |-> Len(CollectTransactions(r.store, walletID))])
                    /\ reader' =
                           IF r.err # NoErr
                           THEN Response(op, walletID, authHeader, apiToken, <<>>,
                                         ErrorStatus(op, r.err), <<[op |-> op]>>, NoBody)
                           ELSE Response(op, walletID, authHeader, apiToken, <<>>,
                                         StatusOK, <<[op |-> op], [op |-> "GetWallet"]>>,
                                         [transaction |-> tx,
                                          wallet |-> GetWallet(r.store, walletID)])
    /\ UNCHANGED <<started, probe, envVars>>

ApiAddCurrency ==
    \E w \in ApiWalletIDs, h \in ApiAuthHeaders, k \in ApiTokens, a \in ApiAmounts,
       d \in Descriptions, ad \in AdditionalDatas :
        ApiPost("AddCurrency", w, h, k, a, d, ad)

ApiRemoveCurrency ==
    \E w \in ApiWalletIDs, h \in ApiAuthHeaders, k \in ApiTokens, a \in ApiAmounts,
       d \in Descriptions, ad \in AdditionalDatas :
        ApiPost("RemoveCurrency", w, h, k, a, d, ad)

\* GET /api/v1/wallets/:wallet_id/balance: AuthMiddleware, then
\* Handler.GetWalletBalance
ApiGetWalletBalance ==
    \E w \in ApiWalletIDs, h \in ApiAuthHeaders, k \in ApiTokens :
        LET auth == AuthMiddleware(h, k)
        IN  /\ reader.pc = "idle"
            /\ reader' =
                   IF auth # Passed
                   THEN Response("GetWalletBalance", w, h, k, <<>>, auth, <<>>, NoBody)
                   ELSE IF w = ""
                   THEN Response("GetWalletBalance", w, h, k, <<>>, StatusBadRequest,
                                 <<>>, NoBody)
                   ELSE Response("GetWalletBalance", w, h, k, <<>>, StatusOK,
                                 <<[op |-> "GetWalletBalance"]>>,
                                 [wallet_id |-> w,
                                  balance |-> GetWalletBalance(store, w)])
            /\ UNCHANGED <<store, nextTxnTs, commits, now, calls, started, probe,
                           history, envVars>>

\* Handler.GetTransactionHistory from entry to response.  A panic of the ledger
\* call is answered 500 by the Recovery middleware of gin.Default()
GetTransactionHistory(s, walletID, authHeader, apiToken, query) ==
    LET limit     == HistoryLimit(DefaultQuery(query, "limit", "50"))
        offset    == HistoryOffset(DefaultQuery(query, "offset", "0"))
        sortBy    == HistorySortBy(DefaultQuery(query, "sort_by", "timestamp"))
        sortOrder == HistorySortOrder(DefaultQuery(query, "sort_order", "DESC"))
        list      == [op |-> "GetTransactionsByWallet", limit |-> limit,
                      offset |-> offset, sortBy |-> sortBy, sortOrder |-> sortOrder]
        r         == GetTransactionsByWallet(s, walletID, limit, offset, sortBy,
                                             sortOrder)
    IN  IF walletID = ""
        THEN Response("GetTransactionHistory", walletID, authHeader, apiToken, query,
                      StatusBadRequest, <<>>, NoBody)
        ELSE IF r.panic
        THEN Response("GetTransactionHistory", walletID, authHeader, apiToken, query,
                      StatusInternalServerError, <<list>>, NoBody)
        ELSE Response("GetTransactionHistory", walletID, authHeader, apiToken, query,
                      StatusOK, <<list, [op |-> "GetWallet"]>>,
                      [transactions |-> r.transactions,
                       wallet |-> GetWallet(s, walletID),
                       pagination |-> [limit |-> limit, offset |-> offset,
                                       count |-> Len(r.transactions)]])

\* GET /api/v1/wallets/:wallet_id/transactions: AuthMiddleware, then
\* Handler.GetTransactionHistory
ApiGetTransactionHistory ==
    \E w \in ApiWalletIDs, h \in ApiAuthHeaders, k \in ApiTokens, q \in HistoryQueries :
        LET auth == AuthMiddleware(h, k)
        IN  /\ reader.pc = "idle"
            /\ reader' =
                   IF auth # Passed
                   THEN Response("GetTransactionHistory", w, h, k, q, auth, <<>>, NoBody)
                   ELSE GetTransactionHistory(store, w, h, k, q)
            /\ UNCHANGED <<store, nextTxnTs, commits, now, calls, started, probe,
                           history, envVars>>

\* the response is written and the request is over
ApiDone ==
    /\ reader.pc = "done"
    /\ reader' = NoReader
    /\ UNCHANGED <<store, nextTxnTs, commits, now, calls, started, probe, history,
                   envVars>>

ApiNext ==
    \/ ApiAddCurrency
    \/ ApiRemoveCurrency
    \/ ApiGetWalletBalance
    \/ ApiGetTransactionHistory
    \/ ApiDone

ApiSpec == QueryInit /\ [][ApiNext]_vars

----------------------------------------------------------------------------
(* Two calls on one wallet: the order of ids and the order of timestamps *)

ClockWalletIDs == {"a"}
ClockAmounts == {0, 1}

\* a call enters op(walletID, amount, ...): it returns at once on an invalid
\* amount, otherwise it starts the Transaction literal with ID: generateID(),
\* which reads the clock at t1
ClockEnter(p, op, walletID, amount, description, additionalData) ==
    /\ calls[p].pc \in {"idle", "done"}
    /\ \A q \in Procs : Before(q, p) => calls[q].pc \notin {"idle", "done"}
    /\ started < MaxOps
    /\ started' = started + 1
    /\ IF InvalidAmount(amount)
       THEN /\ calls' = [calls EXCEPT ![p] =
                    [IdleCall EXCEPT !.pc = "done", !.op = op, !.walletID = walletID,
                                     !.amount = amount, !.err = ErrAmount]]
            /\ now' = now
       ELSE \E t1 \in {now, now + 1} :
            /\ t1 <= MaxTime
            /\ now' = t1
            /\ calls' = [calls EXCEPT ![p] =
                    [IdleCall EXCEPT !.pc = "literal", !.op = op, !.walletID = walletID,
                                     !.amount = amount,
                                     !.tx = [t1 |-> t1, description |-> description,
                                             additionalData |-> additionalData]]]
    /\ UNCHANGED <<store, nextTxnTs, commits, probe, reader, history, envVars>>

ClockAddCurrencyCall(p) ==
    \E w \in ClockWalletIDs, a \in ClockAmounts, d \in Descriptions,
       ad \in AdditionalDatas :
        ClockEnter(p, "AddCurrency", w, a, d, ad)

ClockRemoveCurrencyCall(p) ==
    \E w \in ClockWalletIDs, a \in ClockAmounts, d \in Descriptions,
       ad \in AdditionalDatas :
        ClockEnter(p, "RemoveCurrency", w, a, d, ad)

ClockNext ==
    \/ \E p \in Procs : ClockAddCurrencyCall(p)
    \/ \E p \in Procs : ClockRemoveCurrencyCall(p)
    \/ \E p \in Procs : ClockTimestamp(p)
    \/ \E p \in Procs : UpdateBegin(p)
    \/ \E p \in Procs : AddCurrencyCommit(p)
    \/ \E p \in Procs : RemoveCurrencyCommit(p)

ClockSpec == Init /\ [][ClockNext]_vars

----------------------------------------------------------------------------
(* Stored values that do not decode *)

\* calls in one behaviour
MaxDecodeOps == 2
DecodeWalletIDs == {"a", "c"}
DecodeAmounts == {0, 1}

\* a stored value that is not a JSON document: the bytes of a cut-off write
Undecodable == [bytes |-> "{"]
\* the error json.Unmarshal returns for it
ErrDecode == "unexpected end of JSON input"

\* a decoder that reports no error
Unmarshal_AcceptsAll(val) == NoErr

\* the error of json.Unmarshal(val, &x), which FromJSON returns
Unmarshal(val) == IF val = Undecodable THEN ErrDecode ELSE NoErr

\* DB.GetWallet with the error it returns
GetWalletResult(s, walletID) ==
    LET wallet == [WalletID |-> walletID, Balance |-> 0]
        key    == Wallet_Key(wallet)
    IN  IF key \in DOMAIN s /\ Unmarshal(s[key]) # NoErr
        THEN [wallet |-> wallet, err |-> Unmarshal(s[key])]
        ELSE [wallet |-> GetWallet(s, walletID), err |-> NoErr]

\* DB.GetTransactionsByWallet with the error it returns: the loop stops at the
\* first value FromJSON rejects and the call returns nil with that error
GetTransactionsByWalletResult(s, walletID, limit, offset, sortBy, sortOrder) ==
    IF \E k \in ScanKeys(s, walletID) : Unmarshal(s[k]) # NoErr
    THEN [panic |-> FALSE, transactions |-> <<>>, err |-> ErrDecode]
    ELSE LET r == GetTransactionsByWallet(s, walletID, limit, offset, sortBy, sortOrder)
         IN  [panic |-> r.panic, transactions |-> r.transactions, err |-> NoErr]

\* the closure of AddCurrency with the error of wallet.FromJSON
AddCurrencyClosure(s, walletID, amount, tx) ==
    LET key0 == Wallet_Key([WalletID |-> walletID, Balance |-> 0])
    IN  IF key0 \in DOMAIN s /\ Unmarshal(s[key0]) # NoErr
        THEN [err |-> Unmarshal(s[key0]), reads |-> {key0}, writes |-> <<>>]
        ELSE AddCurrencyBody(s, walletID, amount, tx)

\* the closure of RemoveCurrency with the error of wallet.FromJSON
RemoveCurrencyClosure(s, walletID, amount, tx) ==
    LET key0 == Wallet_Key([WalletID |-> walletID, Balance |-> 0])
    IN  IF key0 \in DOMAIN s /\ Unmarshal(s[key0]) # NoErr
        THEN [err |-> Unmarshal(s[key0]), reads |-> {key0}, writes |-> <<>>]
        ELSE RemoveCurrencyBody(s, walletID, amount, tx)

\* AddCurrency / RemoveCurrency from entry to return with no other call in
\* between; calls is the sequence of the calls made, each with the Transaction
\* and the error it returned
DecodeCall(op, walletID, amount, description, additionalData) ==
    /\ IF InvalidAmount(amount)
       THEN /\ calls' = Append(calls,
                    [op |-> op, walletID |-> walletID, amount |-> amount,
                     tx |-> NoTx, err |-> ErrAmount])
            /\ UNCHANGED <<store, nextTxnTs, commits, now, history>>
       ELSE \E t1 \in {now, now + 1}, t2 \in {now, now + 1, now + 2} :
            LET tx   == NewTransaction(t1, t2, walletID,
                            IF op = "AddCurrency" THEN amount ELSE -amount,
                            description, additionalData)
                body == IF op = "AddCurrency"
                        THEN AddCurrencyClosure(store, walletID, amount, tx)
                        ELSE RemoveCurrencyClosure(store, walletID, amount, tx)
                r    == Update(store, body, nextTxnTs - 1)
            IN  /\ t1 <= t2 /\ t2 <= t1 + 1 /\ t2 <= MaxTime
                /\ now' = t2
                /\ store' = r.store
                /\ commits' = [k \in DOMAIN commits \cup r.written |->
                                  IF k \in r.written THEN nextTxnTs ELSE commits[k]]
                /\ nextTxnTs' = IF r.written # {} THEN nextTxnTs + 1 ELSE nextTxnTs
                /\ history' = IF r.written # {} THEN history \cup {r.store} ELSE history
                /\ calls' = Append(calls,
                        [op |-> op, walletID |-> walletID, amount |-> amount,
                         tx |-> IF r.err # NoErr THEN NoTx ELSE tx, err |-> r.err])
    /\ reader' = NoReader
    /\ UNCHANGED <<started, probe, envVars>>

DecodeAddCurrency ==
    \E w \in DecodeWalletIDs, a \in DecodeAmounts, d \in Descriptions,
       ad \in AdditionalDatas :
        Len(calls) < MaxDecodeOps /\ DecodeCall("AddCurrency", w, a, d, ad)

DecodeRemoveCurrency ==
    \E w \in DecodeWalletIDs, a \in DecodeAmounts, d \in Descriptions,
       ad \in AdditionalDatas :
        Len(calls) < MaxDecodeOps /\ DecodeCall("RemoveCurrency", w, a, d, ad)

\* GetWallet from entry to return; reader is the call and what it returned
DecodeGetWallet ==
    \E w \in DecodeWalletIDs :
        /\ reader.pc = "idle"
        /\ reader' = [pc |-> "done", op |-> "GetWallet", walletID |-> w,
                      result |-> GetWalletResult(store, w)]
        /\ UNCHANGED <<store, nextTxnTs, commits, now, calls, started, probe, history,
                       envVars>>

\* GetTransactionsByWallet from entry to return
DecodeGetTransactionsByWallet ==
    \E w \in DecodeWalletIDs, sortBy \in {"timestamp", "amount"}, sortOrder \in {"ASC", "DESC"} :
        /\ reader.pc = "idle"
        /\ reader' = [pc |-> "done", op |-> "GetTransactionsByWallet", walletID |-> w,
                      result |-> GetTransactionsByWalletResult(store, w, GoInt(50),
                                                               GoInt(0), sortBy, sortOrder)]
        /\ UNCHANGED <<store, nextTxnTs, commits, now, calls, started, probe, history,
                       envVars>>

\* the store of wallet "a" after its funding credit
FundedStore ==
    ApplyWrites(<<>>, AddCurrencyBody(<<>>, "a", FundingAmount, FundingTx).writes)

\* a store opened on a directory that holds the records of wallet "a", at most
\* one of them with a value that does not decode
DecodeInit ==
    /\ \E K \in SUBSET DOMAIN FundedStore :
        /\ Cardinality(K) <= 1
        /\ store = [k \in DOMAIN FundedStore |->
                       IF k \in K THEN Undecodable ELSE FundedStore[k]]
    /\ nextTxnTs = 2
    /\ commits = [k \in DOMAIN FundedStore |-> 1]
    /\ now = 0
    /\ calls = <<>>
    /\ started = 0
    /\ probe = NoProbe
    /\ reader = NoReader
    /\ history = {store}
    /\ NoEnv

DecodeNext ==
    \/ DecodeAddCurrency
    \/ DecodeRemoveCurrency
    \/ DecodeGetWallet
    \/ DecodeGetTransactionsByWallet

DecodeSpec == DecodeInit /\ [][DecodeNext]_vars

----------------------------------------------------------------------------
(* The read calls of the ledger and the store they leave behind *)

\* AddCurrency/RemoveCurrency calls in one behaviour of ReadSpec
MaxReadOps == 2

ReadCallWalletIDs == {"a"}
ReadCallAmounts == {1}
\* wallets that are read: with a record, without one, and one whose wallet key
\* is the index key of a transaction of wallet "a"
ReadWalletIDs == {"a", "c", "a:transaction:" \o generateID(0)}

\* a GetWallet that saves the zero balance wallet it makes up for a missing record
GetWalletCall_SavesNewWallet(s, walletID) ==
    [wallet |-> GetWallet(s, walletID), err |-> NoErr,
     store  |-> IF Wallet_Key([WalletID |-> walletID, Balance |-> 0]) \in DOMAIN s
                THEN s
                ELSE (Wallet_Key([WalletID |-> walletID, Balance |-> 0])
                          :> Wallet_ToJSON([WalletID |-> walletID, Balance |-> 0])) @@ s]

\* DB.GetWallet on the store s: the wallet and error it returns and the store
\* it leaves.  Its only access is txn.Get in a d.db.View transaction; the zero
\* balance wallet of a missing record is built in memory
GetWalletCall(s, walletID) ==
    [wallet |-> GetWallet(s, walletID), err |-> NoErr, store |-> s]

\* DB.GetWalletBalance on the store s: it calls GetWallet
GetWalletBalanceCall(s, walletID) ==
    [balance |-> GetWalletCall(s, walletID).wallet.Balance,
     err     |-> GetWalletCall(s, walletID).err,
     store   |-> GetWalletCall(s, walletID).store]

\* DB.GetTransactionsByWallet on the store s: its only access is the iterator
\* of a d.db.View transaction
GetTransactionsByWalletStore(s, walletID, limit, offset, sortBy, sortOrder) ==
    [result |-> GetTransactionsByWallet(s, walletID, limit, offset, sortBy, sortOrder),
     store  |-> s]

ReadAddCurrency ==
    \E w \in ReadCallWalletIDs, a \in ReadCallAmounts, d \in Descriptions,
       ad \in AdditionalDatas :
        Len(calls) < MaxReadOps /\ CallAlone("AddCurrency", w, a, d, ad)

ReadRemoveCurrency ==
    \E w \in ReadCallWalletIDs, a \in ReadCallAmounts, d \in Descriptions,
       ad \in AdditionalDatas :
        Len(calls) < MaxReadOps /\ CallAlone("RemoveCurrency", w, a, d, ad)

\* a read call from entry to return with no other call in between: reader is
\* the call with what it returned, before is the store it ran on
ReadGetWallet ==
    \E w \in ReadWalletIDs :
        /\ reader.pc = "idle"
        /\ store' = GetWalletCall(store, w).store
        /\ reader' = [pc |-> "done", op |-> "GetWallet", walletID |-> w,
                      before |-> store,
                      result |-> GetWalletCall(store, w).wallet]
        /\ UNCHANGED <<nextTxnTs, commits, now, calls, started, probe, history, envVars>>

ReadGetWalletBalance ==
    \E w \in ReadWalletIDs :
        /\ reader.pc = "idle"
        /\ store' = GetWalletBalanceCall(store, w).store
        /\ reader' = [pc |-> "done", op |-> "GetWalletBalance", walletID |-> w,
                      before |-> store,
                      result |-> GetWalletBalanceCall(store, w).balance]
        /\ UNCHANGED <<nextTxnTs, commits, now, calls, started, probe, history, envVars>>

ReadGetTransactionsByWallet ==
    \E w \in ReadWalletIDs, limit \in {GoInt(1), GoInt(50)}, offset \in {GoInt(0), GoInt(1)},
       sortBy \in {"timestamp", "amount"}, sortOrder \in {"ASC", "DESC"} :
        LET r == GetTransactionsByWalletStore(store, w, limit, offset, sortBy, sortOrder)
        IN  /\ reader.pc = "idle"
            /\ store' = r.store
            /\ reader' = [pc |-> "done", op |-> "GetTransactionsByWallet",
                          walletID |-> w, before |-> store, result |-> r.result]
            /\ UNCHANGED <<nextTxnTs, commits, now, calls, started, probe, history,
                           envVars>>

ReadNext ==
    \/ ReadAddCurrency
    \/ ReadRemoveCurrency
    \/ ReadGetWallet
    \/ ReadGetWalletBalance
    \/ ReadGetTransactionsByWallet

ReadSpec == QueryInit /\ [][ReadNext]_vars

----------------------------------------------------------------------------
(* Direct writes: DB.SaveWallet and DB.SaveTransaction *)

\* Both are exported methods of DB that no handler and no other method of the
\* repository calls (AddCurrency and RemoveCurrency set their keys inside their
\* own transaction).  A caller of the package can use them, so SaveSpec runs
\* them next to the ledger calls; the specifications of call sequences made of
\* AddCurrency, RemoveCurrency and the reads do not contain them.

\* the wallets and transactions a caller hands to the two methods
SaveWallets == {[WalletID |-> w, Balance |-> b] : w \in {"a", "c"}, b \in {-1, 0, 5}}
SaveTransactions ==
    {ZeroTransaction}
      \cup {NewTransaction(t, t, w, a, "d", NilMap) : t \in {0, 1}, w \in {"a", "c"}, a \in {-1, 2}}

\* DB.SaveWallet on the store s in an update transaction that starts at
\* readTs: the closure sets the key of the wallet to its JSON and reads nothing
SaveWallet(s, wallet, readTs) ==
    Update(s, [err |-> NoErr, reads |-> {},
               writes |-> << <<Wallet_Key(wallet), Wallet_ToJSON(wallet)>> >>],
           readTs)

\* DB.SaveTransaction: the closure sets the key of the transaction and its key
\* below the wallet to the same JSON and reads nothing
SaveTransaction(s, tx, readTs) ==
    Update(s, [err |-> NoErr, reads |-> {},
               writes |-> << <<Transaction_Key(tx), Transaction_ToJSON(tx)>>,
                             <<Transaction_WalletKey(tx), Transaction_ToJSON(tx)>> >>],
           readTs)

\* a direct write from entry to return with no other call in between: r is what
\* its db.Update did
SaveAlone(op, walletID, r) ==
    /\ store' = r.store
    /\ commits' = [k \in DOMAIN commits \cup r.written |->
                      IF k \in r.written THEN nextTxnTs ELSE commits[k]]
    /\ nextTxnTs' = IF r.written # {} THEN nextTxnTs + 1 ELSE nextTxnTs
    /\ history' = IF r.written # {} THEN history \cup {r.store} ELSE history
    /\ calls' = Append(calls,
            [op |-> op, walletID |-> walletID, amount |-> 0, err |-> r.err,
             balance |-> GetWalletBalance(r.store, walletID),
             count |-> Len(CollectTransactions(r.store, walletID))])
    /\ reader' = NoReader
    /\ UNCHANGED <<now, started, probe, envVars>>

SaveWalletCall ==
    \E wallet \in SaveWallets :
        /\ Len(calls) < MaxReadOps
        /\ SaveAlone("SaveWallet", wallet.WalletID, SaveWallet(store, wallet, nextTxnTs - 1))

SaveTransactionCall ==
    \E tx \in SaveTransactions :
        /\ Len(calls) < MaxReadOps
        /\ SaveAlone("SaveTransaction", tx.WalletID,
                     SaveTransaction(store, tx, nextTxnTs - 1))

SaveNext ==
    \/ ReadAddCurrency
    \/ ReadRemoveCurrency
    \/ SaveWalletCall
    \/ SaveTransactionCall
    \/ ReadGetWallet
    \/ ReadGetWalletBalance
    \/ ReadGetTransactionsByWallet

SaveSpec == QueryInit /\ [][SaveNext]_vars

\* a direct write commits what it was handed and nothing else: the keys it names
\* hold the JSON of its argument, every other key keeps its value, and the
\* call fails with no error
SaveWritesItsKeys ==
    [][\A wallet \in SaveWallets :
          (/\ Len(calls') = Len(calls) + 1
           /\ calls'[Len(calls')].op = "SaveWallet"
           /\ calls'[Len(calls')].err = NoErr
           /\ Wallet_Key(wallet) \in DOMAIN store'
           /\ store'[Wallet_Key(wallet)] = Wallet_ToJSON(wallet))
          => (/\ \A k \in DOMAIN store : k # Wallet_Key(wallet) => store'[k] = store[k]
              /\ GetWalletBalance(store', wallet.WalletID) = wallet.Balance)]_vars

----------------------------------------------------------------------------
(* Steps and states the properties speak about *)

\* the signed amount of the Transaction of call c
Signed(c) == IF c.op = "AddCurrency" THEN c.amount ELSE -c.amount

\* what call c added to the balance
Applied(c) == IF c.err = NoErr THEN Signed(c) ELSE 0

\* call p is a completed AddCurrency/RemoveCurrency with a valid amount
Completed(p) ==
    calls[p].pc = "done" /\ calls[p].op # "none" /\ calls[p].amount > 0

\* the transactions of the completed calls p and q ran on the same wallet and
\* read the same version of its record: neither saw the other's commit
Concurrent(p, q) ==
    /\ p # q /\ Completed(p) /\ Completed(q)
    /\ calls[p].walletID = calls[q].walletID
    /\ calls[p].readVer = calls[q].readVer

\* the amount call c takes out of the wallet
Debited(c) == IF c.op = "RemoveCurrency" THEN c.amount ELSE 0

\* in this step the update transaction of call p ends and the call returns
Finishes(p) == calls[p].pc = "txn" /\ calls'[p].pc = "done"

\* in this step a call is rejected for its amount
Rejects(p) ==
    /\ started' = started + 1
    /\ calls[p].pc \in {"idle", "done"}
    /\ calls'[p].pc = "done" /\ calls'[p].err = ErrAmount
    /\ \A q \in Procs : calls'[q].pc = "literal" => calls[q].pc = "literal"

\* keys of transaction records
IsTransactionKey(k) ==
    \/ HasPrefix(k, "transaction:")
    \/ \E w \in WalletIDs : HasPrefix(k, "wallet:" \o w \o ":transaction:")

----------------------------------------------------------------------------
(* C1 *)

\* C1: in every committed state the balance of each wallet equals the sum of the
\* amounts of the transactions stored for it.
C1_BalanceIsSumOfTransactions ==
    \A w \in WalletIDs :
        GetWalletBalance(store, w) = SumAmounts(store, ScanKeys(store, w))

(* C2 *)

\* C2 as stated: once two concurrent calls on one wallet have completed (debits
\* covered by the balance), the balance is the initial balance plus the signed
\* amounts of both calls.
C2_BothCallsApplied ==
    \A p, q \in Procs :
        (/\ Concurrent(p, q)
         /\ Debited(calls[p]) + Debited(calls[q]) <= calls[p].readBalance)
        => GetWalletBalance(store, calls[p].walletID)
             = calls[p].readBalance + Signed(calls[p]) + Signed(calls[q])

\* C2 amended: once two concurrent calls on one wallet have completed, the
\* balance is the initial balance plus the signed amounts of the calls that
\* returned no error; when both could be served, the first to commit is applied
\* and the other returns the transaction conflict error.
C2_SuccessfulCallsApplied ==
    \A p, q \in Procs :
        Concurrent(p, q) =>
            /\ calls[p].readBalance = calls[q].readBalance
            /\ GetWalletBalance(store, calls[p].walletID)
                 = calls[p].readBalance + Applied(calls[p]) + Applied(calls[q])
            /\ Debited(calls[p]) + Debited(calls[q]) <= calls[p].readBalance
               => {calls[p].err, calls[q].err} = {NoErr, ErrConflict}

\* two concurrent credits of one wallet have completed, one with a conflict
C2_Witness ==
    \E p, q \in Procs :
        /\ Concurrent(p, q)
        /\ calls[p].op = "AddCurrency" /\ calls[q].op = "AddCurrency"
        /\ calls[p].err = NoErr /\ calls[q].err = ErrConflict

(* C3 *)

\* two completed debits of one wallet, each covered by the balance b, not both
Overdrawing(p, q, b) ==
    /\ p # q /\ Completed(p) /\ Completed(q)
    /\ calls[p].walletID = calls[q].walletID
    /\ calls[p].op = "RemoveCurrency" /\ calls[q].op = "RemoveCurrency"
    /\ calls[p].amount <= b /\ calls[q].amount <= b
    /\ calls[p].amount + calls[q].amount > b

\* C3 as stated: of two concurrent debits that each fit the balance but not
\* together, exactly one commits and the other fails with ErrInsufficientFunds.
C3_LoserGetsInsufficientFunds ==
    \A p, q \in Procs :
        (Concurrent(p, q) /\ Overdrawing(p, q, calls[p].readBalance))
        => {calls[p].err, calls[q].err} = {NoErr, ErrInsufficientFunds}

\* C3 amended: of two such debits exactly one commits and the wallet is not
\* overdrawn; the other fails with the transaction conflict error when its
\* transaction read the balance before the first committed, and with
\* ErrInsufficientFunds when it read the balance the first one committed.
C3_ExactlyOneDebitCommits ==
    \A p, q \in Procs :
        /\ (Concurrent(p, q) /\ Overdrawing(p, q, calls[p].readBalance))
           => /\ {calls[p].err, calls[q].err} = {NoErr, ErrConflict}
              /\ GetWalletBalance(store, calls[p].walletID)
                   = calls[p].readBalance + Applied(calls[p]) + Applied(calls[q])
              /\ GetWalletBalance(store, calls[p].walletID) >= 0
        /\ (/\ Overdrawing(p, q, calls[p].readBalance)
            /\ calls[p].err = NoErr
            /\ calls[q].readVer = calls[p].commitTs)
           => /\ calls[q].err = ErrInsufficientFunds
              /\ GetWalletBalance(store, calls[p].walletID) >= 0

\* two concurrent debits of 2 from a balance of 2 have completed
C3_Witness ==
    \E p, q \in Procs :
        /\ Concurrent(p, q) /\ Overdrawing(p, q, calls[p].readBalance)
        /\ calls[p].err = NoErr /\ calls[q].err = ErrConflict

\* the second of two such debits started after the first committed
C3_WitnessSerial ==
    \E p, q \in Procs :
        /\ Overdrawing(p, q, calls[p].readBalance)
        /\ calls[p].err = NoErr /\ calls[q].readVer = calls[p].commitTs
        /\ calls[q].err = ErrInsufficientFunds

(* C4 *)

\* C4: a step in which a call returns an error (invalid amount, insufficient
\* funds, conflict, or a store error after some of its three Sets) leaves the
\* store as it was, and a step that changes the store is the commit of one call
\* that makes its wallet record and both records of its transaction visible
\* together.
C4_FailedCallWritesNothing ==
    [][ /\ \A p \in Procs :
              ((Finishes(p) \/ Rejects(p)) /\ calls'[p].err # NoErr)
              => store' = store
        /\ store' # store =>
              \E p \in Procs :
                  /\ Finishes(p) /\ calls'[p].err = NoErr
                  /\ Wallet_Key([WalletID |-> calls[p].walletID, Balance |-> 0])
                         \in DOMAIN store'
                  /\ Transaction_Key(calls[p].tx) \in DOMAIN store'
                  /\ Transaction_WalletKey(calls[p].tx) \in DOMAIN store'
                  /\ store'[Transaction_Key(calls[p].tx)] = Transaction_ToJSON(calls[p].tx)
                  /\ store'[Transaction_WalletKey(calls[p].tx)]
                         = Transaction_ToJSON(calls[p].tx)
                  /\ GetWalletBalance(store', calls[p].walletID)
                         = calls[p].readBalance + Signed(calls[p])
      ]_vars

\* a call has returned a store error while another call on its wallet has
\* committed
C4_Witness ==
    \E p, q \in Procs :
        /\ calls[p].pc = "done" /\ calls[p].err = ErrStore
        /\ calls[q].pc = "done" /\ calls[q].err = NoErr /\ calls[q].commitTs > 0
        /\ calls[q].walletID = calls[p].walletID

(* C5 *)

\* C5: a successful call stores its transaction under an id no stored
\* transaction has, and no step changes or removes a stored transaction record.
C5_AppendOnlyLog ==
    [][ /\ \A k \in DOMAIN store :
              IsTransactionKey(k) => (k \in DOMAIN store' /\ store'[k] = store[k])
        /\ \A p \in Procs :
              (Finishes(p) /\ calls'[p].err = NoErr)
              => /\ Transaction_Key(calls[p].tx) \notin DOMAIN store
                 /\ Cardinality(ScanKeys(store', calls[p].walletID))
                      = Cardinality(ScanKeys(store, calls[p].walletID)) + 1
      ]_vars

(* C6 *)

\* C6: a call with amount <= 0 returns the amount error in the step it is made,
\* never starts a store transaction, and leaves the balance and the number of
\* transactions of its wallet unchanged.
C6_InvalidAmountRejected ==
    [][ /\ \A p \in Procs :
              (calls'[p].op # "none" /\ calls'[p].amount <= 0)
              => /\ calls'[p].pc = "done"
                 /\ calls'[p].err = ErrAmount
        /\ \A p \in Procs :
              (started' = started + 1 /\ calls'[p] # calls[p] /\ calls'[p].amount <= 0)
              => /\ nextTxnTs' = nextTxnTs
                 /\ GetWalletBalance(store', calls'[p].walletID)
                      = GetWalletBalance(store, calls'[p].walletID)
                 /\ Cardinality(ScanKeys(store', calls'[p].walletID))
                      = Cardinality(ScanKeys(store, calls'[p].walletID))
      ]_vars

\* a debit of 0 has been rejected, the funded wallet still holds its balance
C6_Witness ==
    \E p \in Procs :
        /\ calls[p].pc = "done" /\ calls[p].err = ErrAmount
        /\ calls[p].op = "RemoveCurrency" /\ calls[p].amount = 0
        /\ GetWalletBalance(store, calls[p].walletID) = FundingAmount

(* C7 *)

\* C7: a RemoveCurrency whose amount is greater than the balance its
\* transaction reads returns ErrInsufficientFunds and leaves the store unchanged.
C7_DebitAboveBalanceFails ==
    [][ \A p \in Procs :
            (/\ Finishes(p)
             /\ calls[p].op = "RemoveCurrency"
             /\ calls[p].amount > GetWalletBalance(calls[p].snapshot, calls[p].walletID))
            => /\ calls'[p].err = ErrInsufficientFunds
               /\ store' = store
      ]_vars

\* a debit of wallet "a", which has a record, has failed for insufficient funds
C7_Witness ==
    \E p \in Procs :
        /\ calls[p].pc = "done" /\ calls[p].op = "RemoveCurrency"
        /\ calls[p].walletID = "a"
        /\ calls[p].amount > calls[p].readBalance
        /\ calls[p].err = ErrInsufficientFunds

(* C8 *)

\* C8: every stored wallet record has a balance >= 0.
C8_BalanceNeverNegative ==
    \A w \in WalletIDs :
        /\ GetWalletBalance(store, w) >= 0
        /\ Wallet_Key([WalletID |-> w, Balance |-> 0]) \in DOMAIN store
           => store[Wallet_Key([WalletID |-> w, Balance |-> 0])].balance >= 0

\* a debit has emptied wallet "a"
C8_Witness ==
    /\ GetWalletBalance(store, "a") = 0
    /\ \E p \in Procs :
           /\ calls[p].pc = "done" /\ calls[p].op = "RemoveCurrency"
           /\ calls[p].walletID = "a" /\ calls[p].err = NoErr

(* C9 *)

\* C9: every stored transaction is under its primary key and under its wallet
\* scoped key, and both hold the same record.
C9_BothKeysSameRecord ==
    \A k \in DOMAIN store :
        IsTransactionKey(k) =>
            LET t == Transaction_FromJSON(ZeroTransaction, store[k])
            IN  /\ Transaction_Key(t) \in DOMAIN store
                /\ Transaction_WalletKey(t) \in DOMAIN store
                /\ store[Transaction_Key(t)] = store[k]
                /\ store[Transaction_WalletKey(t)] = store[k]

(* C10 *)

\* C10: a wallet key differs from every transaction key and every wallet scoped
\* transaction key, and different wallet ids have different wallet keys.
C10_WalletKeysDisjoint ==
    probe.pc = "out" =>
        /\ probe.walletKey1 # probe.txKey
        /\ probe.walletKey1 # probe.txWalletKey
        /\ probe.wallet1 # probe.wallet2 => probe.walletKey1 # probe.walletKey2

(* C11 *)

\* the transactions a completed GetTransactionsByWallet call returned
Listed == {reader.result.transactions[i] : i \in DOMAIN reader.result.transactions}

\* C11: the scan of GetTransactionsByWallet(w) yields the stored transactions
\* whose wallet_id is w, all of them and nothing else.
C11_ScanYieldsOwnTransactions ==
    (reader.pc = "done" /\ ~reader.result.panic) =>
        /\ \A t \in Listed : t.WalletID = reader.walletID
        /\ \A k \in DOMAIN store :
              (HasPrefix(k, "transaction:") /\ store[k].wallet_id = reader.walletID)
              => Transaction_FromJSON(ZeroTransaction, store[k]) \in Listed

(* C12 *)

\* the ids of the transactions a list call returned
ListedIDs == {reader.result.transactions[i].ID : i \in DOMAIN reader.result.transactions}

\* C12: what a GetTransactionsByWallet call returns is the list of its wallet in
\* one state the store was committed in: every commit is in it with all of its
\* records or with none, and the transaction of every call that committed
\* before the read transaction started is in it.
C12_ListReadsOneCommittedState ==
    reader.pc = "done" =>
        /\ \E s \in history :
              reader.result = GetTransactionsByWallet(s, reader.walletID,
                                  reader.limit, reader.offset, reader.sortBy,
                                  reader.sortOrder)
        /\ \A p \in Procs :
              (/\ calls[p].pc = "done" /\ calls[p].err = NoErr /\ calls[p].amount > 0
               /\ calls[p].walletID = reader.walletID
               /\ calls[p].commitTs <= reader.readTs)
              => calls[p].tx.ID \in ListedIDs

\* a list call has returned the transactions as of its snapshot while a call
\* on the same wallet committed after the snapshot was taken
C12_Witness ==
    /\ reader.pc = "done"
    /\ \E p \in Procs :
          /\ calls[p].pc = "done" /\ calls[p].err = NoErr
          /\ calls[p].walletID = reader.walletID
          /\ calls[p].commitTs > reader.readTs
    /\ Len(reader.result.transactions)
         < Len(CollectTransactions(store, reader.walletID))

(* C13 *)

\* in this step the GetDB call of p returns
GetDBReturns(p) == gets[p].pc # "done" /\ gets'[p].pc = "done"

\* C13: for every environment name at most one DB is created and registered, a
\* call that returns a DB returns the registered one, and a call returns an error
\* only while no DB is registered for its name: all callers of one name get the
\* same instance.
C13_OneInstancePerEnvironment ==
    [][ /\ \A e \in Environments : mgr'.opened[e] <= 1
        /\ \A e \in DOMAIN mgr.connections :
              e \in DOMAIN mgr'.connections /\ mgr'.connections[e] = mgr.connections[e]
        /\ \A p \in Procs :
              GetDBReturns(p) =>
                  IF gets'[p].err = NoErr
                  THEN /\ gets'[p].environment \in DOMAIN mgr'.connections
                       /\ gets'[p].db = mgr'.connections[gets'[p].environment]
                       /\ gets'[p].db.environment = gets'[p].environment
                  ELSE gets'[p].environment \notin DOMAIN mgr'.connections
        /\ \A p, q \in Procs :
              (/\ gets'[p].pc = "done" /\ gets'[q].pc = "done"
               /\ gets'[p].environment = gets'[q].environment
               /\ gets'[p].err = NoErr /\ gets'[q].err = NoErr)
              => gets'[p].db = gets'[q].db
      ]_vars

\* two concurrent calls for one name both missed the connection under the read
\* lock, and both have returned the one DB that was opened
C13_Witness ==
    \E p, q \in Procs :
        /\ p # q
        /\ gets[p].pc = "done" /\ gets[q].pc = "done"
        /\ gets[p].environment = gets[q].environment
        /\ gets[p].missed /\ gets[q].missed
        /\ gets[p].err = NoErr /\ gets[q].err = NoErr
        /\ gets[p].db = gets[q].db
        /\ mgr.opened[gets[p].environment] = 1

(* C14 *)

\* the store behind the DB registered for environment e, on the disk d
StoreOf(connections, d, e) == d[connections[e].dataDir].store

C15_OtherWalletsUnchanged ==
    [][ Len(calls') = Len(calls) + 1 =>
            \A w \in QueryWalletIDs \ {calls'[Len(calls')].walletID} :
                /\ GetWalletBalance(store', w) = GetWalletBalance(store, w)
                /\ CollectTransactions(store', w) = CollectTransactions(store, w)
      ]_vars

(* C16 *)

\* the value a listed transaction is ordered by
SortKey(t, sortBy) == IF sortBy = "timestamp" THEN t.Timestamp.instant ELSE t.Amount

\* C16: a list sorted by timestamp or by amount is returned in non-decreasing
\* order of that value with ASC and in non-increasing order with DESC.
C16_ListOrderedBySortKey ==
    (/\ reader.pc = "done"
     /\ ~reader.result.panic
     /\ reader.sortBy \in {"timestamp", "amount"}
     /\ reader.sortOrder \in {"ASC", "DESC"})
    => LET r == reader.result.transactions
       IN  \A i \in 1..(Len(r) - 1) :
               IF reader.sortOrder = "ASC"
               THEN SortKey(r[i], reader.sortBy) <= SortKey(r[i + 1], reader.sortBy)
               ELSE SortKey(r[i], reader.sortBy) >= SortKey(r[i + 1], reader.sortBy)

\* a ledger of more than maxInsertion transactions whose timestamps repeat has
\* been listed whole by timestamp DESC: the result starts with a later
\* transaction than the scan does
C16_Witness ==
    /\ reader.pc = "done"
    /\ ~reader.result.panic
    /\ reader.sortBy = "timestamp" /\ reader.sortOrder = "DESC"
    /\ Len(reader.result.transactions) = maxInsertion + 1
    /\ reader.result.transactions[1].Timestamp.instant
         > reader.result.transactions[maxInsertion + 1].Timestamp.instant
    /\ reader.result.transactions[1].ID # CollectTransactions(store, "a")[1].ID
    /\ \E i, j \in 1..(maxInsertion + 1) :
           /\ i # j
           /\ reader.result.transactions[i].Timestamp.instant
                = reader.result.transactions[j].Timestamp.instant

(* C17 *)

\* C17: the sort is stable: listed transactions with equal timestamps (when
\* sorted by timestamp) or equal amounts (when sorted by amount) appear in scan
\* order, which is ascending transaction id, with ASC and with DESC.
C17_SortIsStable ==
    (/\ reader.pc = "done"
     /\ ~reader.result.panic
     /\ reader.sortBy \in {"timestamp", "amount"}
     /\ reader.sortOrder \in {"ASC", "DESC"})
    => LET r == reader.result.transactions
       IN  \A i, j \in 1..Len(r) :
               (i < j /\ SortKey(r[i], reader.sortBy) = SortKey(r[j], reader.sortBy))
               => BytesLess(r[i].ID, r[j].ID)

(* C18 *)

\* the number of transactions the scan of wallet "a" finds
TotalCount == Len(CollectTransactions(store, "a"))

\* C18: a list call with limit L >= 0 and offset O >= 0 returns without a
\* failure at most L elements; max(0, totalCount - O) elements when
\* totalCount - O < L; and an empty sequence when O >= totalCount.
C18_WindowSize ==
    (/\ reader.pc = "done"
     /\ ~IntLess(reader.limit, GoInt(0))
     /\ ~IntLess(reader.offset, GoInt(0)))
    => LET r    == reader.result.transactions
           rest == TotalCount - reader.offset.off
       IN  /\ ~reader.result.panic
           /\ ~IntLess(reader.limit, GoInt(Len(r)))
           /\ IntLess(GoInt(rest), reader.limit)
                 => Len(r) = IF rest > 0 THEN rest ELSE 0
           /\ reader.offset.off >= TotalCount => r = <<>>

(* C19 *)

\* min(offset + limit, n) of the integers that limit and offset stand for
WindowEnd(limit, offset, n) ==
    IF limit.base = "max" \/ offset.off + limit.off > n THEN n
    ELSE offset.off + limit.off

\* C19: the window is cut from the completely sorted list of the wallet: the
\* result is its elements offset .. min(offset + limit, n) - 1.
C19_WindowOfSortedList ==
    (/\ reader.pc = "done"
     /\ reader.sortBy \in {"timestamp", "amount"}
     /\ reader.sortOrder \in {"ASC", "DESC"}
     /\ ~IntLess(reader.limit, GoInt(0))
     /\ ~IntLess(reader.offset, GoInt(0)))
    => LET all == sortTransactions(CollectTransactions(store, "a"),
                                   reader.sortBy, reader.sortOrder)
       IN  /\ ~reader.result.panic
           /\ reader.result.transactions
                = SubSeq(all, reader.offset.off + 1,
                         WindowEnd(reader.limit, reader.offset, Len(all)))

(* C20 *)

\* call i of the log is op on wallet "w" with this amount
ScenarioCall(i, op, amount) ==
    /\ Len(calls) >= i
    /\ calls[i].op = op /\ calls[i].walletID = "w" /\ calls[i].amount = amount

\* the amounts of the transactions listed for wallet "w"
ListedAmounts ==
    LET l == CollectTransactions(store, "w")
    IN  [i \in 1..Len(l) |-> l[i].Amount]

\* C20: on a fresh wallet, Credit 100 gives balance 100 and one transaction of
\* 100; then Debit 50 gives balance 50 and a second transaction of -50; then
\* Debit 1000 fails with ErrInsufficientFunds, balance 50 and two transactions.
C20_CreditDebitScenario ==
    /\ (Len(calls) = 1 /\ ScenarioCall(1, "AddCurrency", 100))
         => /\ calls[1].err = NoErr
            /\ GetWalletBalance(store, "w") = 100
            /\ ListedAmounts = <<100>>
    /\ (/\ Len(calls) = 2
         /\ ScenarioCall(1, "AddCurrency", 100)
         /\ ScenarioCall(2, "RemoveCurrency", 50))
         => /\ calls[2].err = NoErr
            /\ GetWalletBalance(store, "w") = 50
            /\ ListedAmounts = <<100, -50>>
    /\ (/\ Len(calls) = 3
         /\ ScenarioCall(1, "AddCurrency", 100)
         /\ ScenarioCall(2, "RemoveCurrency", 50)
         /\ ScenarioCall(3, "RemoveCurrency", 1000))
         => /\ calls[3].err = ErrInsufficientFunds
            /\ GetWalletBalance(store, "w") = 50
            /\ Len(ListedAmounts) = 2

(* C21 *)

\* no call of the log was made on wallet w
NeverCalled(w) == \A i \in 1..Len(calls) : calls[i].walletID # w

\* C21: for a wallet id that was never credited or debited GetWallet returns a
\* wallet of balance 0 and no error, and GetWalletBalance returns 0.
C21_UnusedWalletReadsZero ==
    (reader.pc = "done" /\ NeverCalled(reader.walletID))
    => /\ reader.err = NoErr
       /\ reader.wallet.Balance = 0
       /\ reader.balance = 0

\* a wallet id no call was made on has been read while its wallet key holds a
\* record (the index record of a transaction of wallet "a")
C21_Witness ==
    /\ reader.pc = "done"
    /\ NeverCalled(reader.walletID)
    /\ reader.balance = 0
    /\ Wallet_Key([WalletID |-> reader.walletID, Balance |-> 0]) \in DOMAIN store

(* C22 *)

\* equality of two transactions: the fields as Go values (a nil map and an
\* empty map differ), the timestamps as instants (Time.Equal)
SameTransaction(x, y) ==
    /\ x.ID = y.ID /\ x.WalletID = y.WalletID /\ x.Amount = y.Amount
    /\ x.Description = y.Description
    /\ x.AdditionalData = y.AdditionalData
    /\ x.Timestamp.instant = y.Timestamp.instant

\* C22: ToJSON followed by FromJSON yields a value equal to the original, for
\* every wallet and every transaction, also one whose additional_data is an
\* empty mapping and one whose additional_data is populated.
C22_RoundTrip ==
    probe.pc = "out"
    => IF probe.type = "Wallet"
       THEN probe.decoded = probe.value
       ELSE SameTransaction(probe.decoded, probe.value)

(* C23 *)

\* the positions of the Close log at which db.Close() failed
FailedCloses == {i \in DOMAIN gets.log : gets.log[i].err # NoErr}

\* C23: a Close call closes every registered DB exactly once, also after a
\* close that failed, and returns the last error seen, nil when none failed.
C23_CloseAllReturnsLastError ==
    gets.pc = "done"
    => /\ \A e \in gets.registered :
              Cardinality({i \in DOMAIN gets.log : gets.log[i].environment = e}) = 1
       /\ Len(gets.log) = Cardinality(gets.registered)
       /\ gets.err = IF FailedCloses = {} THEN NoErr
                     ELSE gets.log[CHOOSE i \in FailedCloses :
                                      \A j \in FailedCloses : j <= i].err

\* a Close call over three DBs has returned: the first close failed, the
\* second succeeded, the third failed and its error is the one returned
C23_Witness ==
    /\ gets.pc = "done"
    /\ Len(gets.log) = 3
    /\ gets.log[1].err # NoErr /\ gets.log[2].err = NoErr /\ gets.log[3].err # NoErr
    /\ gets.err = gets.log[3].err

----------------------------------------------------------------------------
(* C24 *)

\* request p was answered with a Transaction and a wallet
Answered(p) == calls[p].pc = "done" /\ calls[p].status = StatusOK

\* C24: the wallet in the response of a credit or debit request is the updated
\* wallet of that request: its balance is the balance its update read plus the
\* signed amount of the Transaction in the response, whatever other requests on
\* the wallet do meanwhile.
\* Violated: the wallet is read after the update committed, in a transaction of
\* its own, and shows the commits of other requests made in between.
C24_ResponseWalletIsOwnUpdate ==
    \A p \in Procs :
        Answered(p) =>
            calls[p].wallet.Balance = calls[p].readBalance + calls[p].tx.Amount

----------------------------------------------------------------------------
(* C25 *)

\* the request being served is a transaction history request that reached the ledger
HistoryServed ==
    /\ reader.pc = "done"
    /\ reader.route = "GetTransactionHistory"
    /\ reader.ledger # <<>>

\* the query value str is an integer >= 0 (of the int type)
NonNegativeInteger(str) ==
    Atoi(str).err = NoErr /\ ~IntLess(Atoi(str).n, GoInt(0))

\* C25: the transaction history request passes every integer limit >= 0 to
\* GetTransactionsByWallet unchanged and replaces any other limit by 50; it
\* passes every integer offset >= 0 unchanged and replaces any other offset by 0.
\* Violated: limit=0 is replaced by 50.
C25_PageParametersPassed ==
    HistoryServed =>
        LET limitStr  == DefaultQuery(reader.query, "limit", "50")
            offsetStr == DefaultQuery(reader.query, "offset", "0")
        IN  /\ reader.ledger[1].limit =
                   IF NonNegativeInteger(limitStr) THEN Atoi(limitStr).n ELSE GoInt(50)
            /\ reader.ledger[1].offset =
                   IF NonNegativeInteger(offsetStr) THEN Atoi(offsetStr).n ELSE GoInt(0)

----------------------------------------------------------------------------
(* C26 *)

\* the sort parameter key of the request is absent or not one of valid
NoValid(key, valid) ==
    key \notin DOMAIN reader.query \/ reader.query[key] \notin valid

\* the sequence ts is in non-increasing order of timestamp
NewestFirst(ts) ==
    \A i, j \in DOMAIN ts :
        i < j => ts[i].Timestamp.instant >= ts[j].Timestamp.instant

\* C26: the transaction history request passes a sort_by of timestamp or amount
\* and a sort_order of ASC or DESC as given and replaces any other by timestamp
\* and DESC; a request answered without valid sort parameters lists the
\* transactions newest first, and all transactions of the wallet when it has no
\* pagination parameters either.
C26_DefaultSortNewestFirst ==
    HistoryServed =>
        /\ reader.ledger[1].sortBy =
               IF NoValid("sort_by", {"timestamp", "amount"}) THEN "timestamp"
               ELSE reader.query["sort_by"]
        /\ reader.ledger[1].sortOrder =
               IF NoValid("sort_order", {"ASC", "DESC"}) THEN "DESC"
               ELSE reader.query["sort_order"]
        /\ ( /\ reader.status = StatusOK
             /\ NoValid("sort_by", {"timestamp", "amount"})
             /\ NoValid("sort_order", {"ASC", "DESC"}) )
           => /\ NewestFirst(reader.body.transactions)
              /\ DOMAIN reader.query \cap {"limit", "offset"} = {}
                 => {reader.body.transactions[i] : i \in DOMAIN reader.body.transactions}
                        = WalletTransactions(store, reader.walletID)

\* a request with an invalid sort_by was answered with two transactions of
\* different timestamps, the later one first, against the order of the scan
C26_Witness ==
    /\ HistoryServed
    /\ reader.status = StatusOK
    /\ "sort_by" \in DOMAIN reader.query
    /\ reader.query["sort_by"] \notin {"timestamp", "amount"}
    /\ Len(reader.body.transactions) = 2
    /\ reader.body.transactions[1].Timestamp.instant
           > reader.body.transactions[2].Timestamp.instant
    /\ reader.body.transactions # CollectTransactions(store, reader.walletID)

----------------------------------------------------------------------------
(* C27 *)

\* request r has no Authorization header, one without the "Bearer " prefix, or a
\* token different from API_TOKEN
Unauthenticated(r) ==
    \/ r.authHeader = ""
    \/ ~HasPrefix(r.authHeader, "Bearer ")
    \/ TrimPrefix(r.authHeader, "Bearer ") # r.apiToken

\* this step serves a request that is not authenticated
ServesUnauthenticated ==
    reader.pc = "idle" /\ reader'.pc = "done" /\ Unauthenticated(reader')

\* this step makes no ledger call: nothing is read for the response and nothing
\* is written
NoLedgerCall ==
    /\ reader'.ledger = <<>>
    /\ reader'.body = NoBody
    /\ UNCHANGED <<store, nextTxnTs, commits, calls, history>>

\* C27 as stated: every unauthenticated request under /api/v1 is answered 401
\* and makes no ledger call.
\* Violated: a Bearer header is answered 500 while API_TOKEN is unset.
C27_UnauthenticatedGets401 ==
    [][ServesUnauthenticated =>
            reader'.status = StatusUnauthorized /\ NoLedgerCall]_vars

\* C27: every unauthenticated request under /api/v1 is rejected and makes no
\* ledger call; the answer is 500 when the header has the Bearer prefix and
\* API_TOKEN is unset, and 401 otherwise.
C27_UnauthenticatedRejected ==
    [][ServesUnauthenticated =>
            /\ reader'.status =
                   IF HasPrefix(reader'.authHeader, "Bearer ") /\ reader'.apiToken = ""
                   THEN StatusInternalServerError
                   ELSE StatusUnauthorized
            /\ NoLedgerCall]_vars

\* a request with a wrong token was rejected while API_TOKEN was set and the
\* wallet it names had a record and a transaction to read
C27_Witness ==
    /\ reader.pc = "done"
    /\ reader.authHeader = "Bearer wrong"
    /\ reader.apiToken = "secret"
    /\ reader.status = StatusUnauthorized
    /\ reader.ledger = <<>>
    /\ GetWalletBalance(store, reader.walletID) > 0
    /\ CollectTransactions(store, reader.walletID) # <<>>

----------------------------------------------------------------------------
(* C28 *)

\* C28: of two stored transactions of one wallet, the one with the smaller id
\* (the one the scan yields first) has a timestamp that is not later: scan
\* order, id order and timestamp order agree, also for concurrent calls.
\* Violated: the id and the timestamp come from two clock readings, and another
\* call can take both of its readings between them.
C28_IdOrderIsTimestampOrder ==
    \A w \in ClockWalletIDs :
        \A a, b \in WalletTransactions(store, w) :
            BytesLess(a.ID, b.ID) => a.Timestamp.instant <= b.Timestamp.instant

----------------------------------------------------------------------------
(* C29 *)

\* the call this step of one caller makes
LastCall == calls'[Len(calls')]

\* this step is a RemoveCurrency call with a positive amount
Debits ==
    /\ Len(calls') = Len(calls) + 1
    /\ LastCall.op = "RemoveCurrency"
    /\ LastCall.amount > 0

\* the wallet key of wallet id w
WalletKeyOf(w) == Wallet_Key([WalletID |-> w, Balance |-> 0])

\* C29: RemoveCurrency with a positive amount on a wallet that has no stored
\* record returns ErrInsufficientFunds and writes nothing: no wallet record and
\* no transaction record appears.
C29_DebitOfMissingWalletFails ==
    [][(Debits /\ WalletKeyOf(LastCall.walletID) \notin DOMAIN store) =>
            /\ LastCall.err = ErrInsufficientFunds
            /\ store' = store
            /\ WalletKeyOf(LastCall.walletID) \notin DOMAIN store'
            /\ DOMAIN store' = DOMAIN store]_vars

\* the last call was a debit with a positive amount that failed on a wallet
\* without a record, in a store that holds records of another wallet
C29_Witness ==
    /\ calls # <<>>
    /\ calls[Len(calls)].op = "RemoveCurrency"
    /\ calls[Len(calls)].amount > 0
    /\ calls[Len(calls)].err = ErrInsufficientFunds
    /\ WalletKeyOf(calls[Len(calls)].walletID) \notin DOMAIN store
    /\ store # <<>>

----------------------------------------------------------------------------
(* C30 *)

\* C30: RemoveCurrency with an amount equal to the stored balance of the wallet
\* succeeds: its commit writes the wallet record, which stays with balance 0,
\* and a transaction of the negated amount under both of its keys.
C30_DebitOfWholeBalanceSucceeds ==
    [][( /\ Debits
         /\ WalletKeyOf(LastCall.walletID) \in DOMAIN store
         /\ GetWalletBalance(store, LastCall.walletID) = LastCall.amount ) =>
            /\ LastCall.err = NoErr
            /\ WalletKeyOf(LastCall.walletID) \in DOMAIN store'
            /\ GetWalletBalance(store', LastCall.walletID) = 0
            /\ commits'[WalletKeyOf(LastCall.walletID)] = nextTxnTs
            /\ \E t \in WalletTransactions(store', LastCall.walletID) :
                   /\ t.Amount = -LastCall.amount
                   /\ Transaction_Key(t) \in DOMAIN store'
                   /\ store'[Transaction_Key(t)] = store'[Transaction_WalletKey(t)]
                   /\ commits'[Transaction_Key(t)] = nextTxnTs
                   /\ commits'[Transaction_WalletKey(t)] = nextTxnTs]_vars

\* the last call was a successful debit that left the record of its wallet with
\* balance 0 and a transaction of the negated amount
C30_Witness ==
    /\ calls # <<>>
    /\ calls[Len(calls)].op = "RemoveCurrency"
    /\ calls[Len(calls)].err = NoErr
    /\ calls[Len(calls)].amount > 0
    /\ WalletKeyOf(calls[Len(calls)].walletID) \in DOMAIN store
    /\ GetWalletBalance(store, calls[Len(calls)].walletID) = 0
    /\ \E t \in WalletTransactions(store, calls[Len(calls)].walletID) :
           t.Amount = -calls[Len(calls)].amount

----------------------------------------------------------------------------
(* C31 *)

\* in this step the GetDB call of p, holding the write lock, finds no connection
\* for its environment and returns
OpensStore(p) ==
    /\ gets[p].pc = "locked" /\ gets'[p].pc = "done"
    /\ ~Exists(mgr.connections, gets[p].environment)

\* C31: a GetDB call whose NewDB fails returns the error with a nil DB and leaves
\* the connections map as it was, so the environment is still unregistered; and
\* every GetDB call that finds its environment unregistered under the write lock
\* attempts the open: it returns an error or registers a newly allocated DB.
C31_FailedOpenRegistersNothing ==
    [][\A p \in Procs :
          OpensStore(p) =>
              IF gets'[p].err # NoErr
              THEN /\ gets'[p].db = NoDB
                   /\ mgr'.connections = mgr.connections
                   /\ disk' = disk
              ELSE /\ mgr'.allocated = mgr.allocated + 1
                   /\ gets'[p].db.ptr = mgr'.allocated
                   /\ mgr'.connections[gets[p].environment] = gets'[p].db
      ]_vars

\* a GetDB call has failed to open the store of an environment, and a call for
\* the same name, which found it unregistered as well, has opened and registered it
C31_Witness ==
    \E p, q \in Procs :
        /\ p # q
        /\ gets[p].pc = "done" /\ gets[q].pc = "done"
        /\ gets[p].environment = gets[q].environment
        /\ gets[p].err = ErrOpen /\ gets[p].db = NoDB
        /\ gets[q].err = NoErr /\ gets[q].missed
        /\ mgr.connections[gets[q].environment] = gets[q].db

----------------------------------------------------------------------------
(* C32 *)

\* C32: GetWallet, GetWalletBalance and GetTransactionsByWallet leave every
\* stored key and value as it was; reading a wallet without a record does not
\* create the record.
C32_ReadsWriteNothing ==
    reader.pc = "done" =>
        /\ store = reader.before
        /\ WalletKeyOf(reader.walletID) \notin DOMAIN reader.before
               => WalletKeyOf(reader.walletID) \notin DOMAIN store

\* a wallet without a record has been read, as a wallet of balance 0, in a store
\* that holds the records of another wallet
C32_Witness ==
    /\ reader.pc = "done"
    /\ reader.op = "GetWallet"
    /\ reader.result.Balance = 0
    /\ WalletKeyOf(reader.walletID) \notin DOMAIN store
    /\ store # <<>>


\* Claim C33: a debit request of the adapter whose ledger call returned
\* ErrInsufficientFunds is answered with 400, one whose ledger call returned
\* any other error, a transaction conflict included, is answered with 500, and
\* one with amount <= 0 is answered with 400 without a ledger call having been
\* made for it
C33_DebitErrorStatus ==
    \A p \in Procs :
        calls[p].pc = "done" /\ calls[p].op = "RemoveCurrency" =>
            /\ calls[p].err = ErrInsufficientFunds => calls[p].status = StatusBadRequest
            /\ calls[p].err \notin {NoErr, ErrInsufficientFunds}
                   => calls[p].status = StatusInternalServerError
            /\ calls[p].amount <= 0 =>
                   /\ calls[p].status = StatusBadRequest
                   /\ calls[p].err = NoErr
                   /\ calls[p].tx = NoTx
                   /\ calls[p].commitTs = 0

\* a debit request lost a transaction conflict and was answered with 500
C33_Witness ==
    \E p \in Procs :
        /\ calls[p].pc = "done"
        /\ calls[p].op = "RemoveCurrency"
        /\ calls[p].err = ErrConflict
        /\ calls[p].status = StatusInternalServerError


\* a GetDB call returns in this step, after a Close has returned
GetDBAfterClose == mgr'.calls = mgr.calls + 1 /\ mgr.closes > 0

\* Claim C37: Close removes nothing from the connections map; a GetDB after
\* Close for a registered environment returns the registered instance, which
\* Close closed if it was registered then, and opens no store; a GetDB after
\* Close for an environment not registered opens a store and registers it
C37_CloseKeepsConnections ==
    [][/\ gets.pc = "range" => mgr'.connections = mgr.connections
       /\ GetDBAfterClose =>
              LET e == reader'.environment
              IN  IF e \in DOMAIN mgr.connections
                  THEN /\ reader'.db = mgr.connections[e]
                       /\ reader'.err = NoErr
                       /\ mgr'.connections = mgr.connections
                       /\ mgr'.allocated = mgr.allocated
                       /\ disk' = disk
                       /\ e \in gets.registered => ~disk'[reader'.db.dataDir].locked
                  ELSE reader'.err = NoErr =>
                       /\ reader'.db.ptr = mgr.allocated + 1
                       /\ reader'.db.dataDir = Join(BaseDir, e)
                       /\ mgr'.connections = (e :> reader'.db) @@ mgr.connections
                       /\ mgr'.opened[e] = mgr.opened[e] + 1
                       /\ disk'[Join(BaseDir, e)].locked
      ]_vars

\* after Close, a new environment was opened and then GetDB returned the closed
\* instance of an environment opened before Close
C37_Witness ==
    /\ gets.pc = "done"
    /\ reader.pc = "done" /\ reader.closes > 0 /\ reader.err = NoErr
    /\ reader.environment \in gets.registered
    /\ reader.db = mgr.connections[reader.environment]
    /\ ~disk[reader.db.dataDir].locked
    /\ mgr.opened[reader.environment] = 1
    /\ \E e \in DOMAIN mgr.connections \ gets.registered :
           disk[mgr.connections[e].dataDir].locked


\* the environment the X-ENV header of a request names
NamedEnvironment(headers) ==
    IF "X-ENV" \notin DOMAIN headers \/ headers["X-ENV"] = ""
    THEN "production"
    ELSE headers["X-ENV"]

\* Claim C34: the DB a request is served with is the one registered for
\* "production" when the request has no X-ENV header or an empty one, and the
\* one registered for the value of the header otherwise
C34_ServedByNamedEnvironment ==
    reader.pc = "done" /\ reader.err = NoErr =>
        LET e == NamedEnvironment(reader.headers)
        IN  /\ e \in DOMAIN mgr.connections
            /\ reader.db = mgr.connections[e]
            /\ reader.db.environment = e
            /\ reader.db.dataDir = Join(BaseDir, e)

\* a request without the header was served with the DB of "production" while
\* the DB of a named environment is registered too
C34_Witness ==
    /\ reader.pc = "done" /\ reader.err = NoErr
    /\ reader.headers = <<>>
    /\ reader.db.environment = "production"
    /\ "a" \in DOMAIN mgr.connections
    /\ mgr.connections["a"] # reader.db


\* the value stored under key does not decode
Corrupt(key) == key \in DOMAIN store /\ store[key] = Undecodable

\* Claim C35: a call that reads a stored value that does not decode returns the
\* decode error: AddCurrency and RemoveCurrency of a wallet whose record does
\* not decode return it with no Transaction and leave the store as it was,
\* GetWallet of that wallet returns it, and GetTransactionsByWallet returns it
\* with no transactions when a value under the wallet's prefix does not decode
C35_DecodeErrorReturned ==
    [][/\ (/\ Len(calls') > Len(calls)
           /\ LastCall.amount > 0
           /\ Corrupt(WalletKeyOf(LastCall.walletID)))
          => (/\ LastCall.err = ErrDecode
              /\ LastCall.tx = NoTx
              /\ store' = store)
       /\ (/\ reader.pc = "idle" /\ reader'.pc = "done"
           /\ reader'.op = "GetWallet"
           /\ Corrupt(WalletKeyOf(reader'.walletID)))
          => reader'.result.err = ErrDecode
       /\ (/\ reader.pc = "idle" /\ reader'.pc = "done"
           /\ reader'.op = "GetTransactionsByWallet"
           /\ \E k \in ScanKeys(store, reader'.walletID) : Corrupt(k))
          => (/\ reader'.result.err = ErrDecode
              /\ reader'.result.transactions = <<>>)
      ]_vars

\* a credit and a debit of a wallet whose record does not decode have failed,
\* and a read of it has failed too
C35_Witness ==
    /\ Len(calls) = 2
    /\ calls[1].op = "AddCurrency" /\ calls[1].err = ErrDecode
    /\ calls[2].op = "RemoveCurrency" /\ calls[2].err = ErrDecode
    /\ reader.pc = "done" /\ reader.op = "GetWallet"
    /\ reader.result.err = ErrDecode
    /\ Corrupt(WalletKeyOf(reader.walletID))


\* Claim C36: a list call with limit >= 0 and offset >= 0, whatever their sum,
\* returns a slice: its pagination step does not fail with slice bounds out of
\* range
C36_PaginationInRange ==
    (/\ reader.pc = "done"
     /\ ~IntLess(reader.limit, GoInt(0))
     /\ ~IntLess(reader.offset, GoInt(0)))
    => ~reader.result.panic


\* dir is a directory below base
StrictlyInside(dir, base) == HasPrefix(dir, base \o "/") /\ dir # base \o "/"

\* Claim C38: the store directories of the registered environments lie strictly
\* inside the base directory, and two environments of different names have
\* different store directories
C38_OwnDirectoryInsideBaseDir ==
    \A e1 \in DOMAIN mgr.connections :
        /\ mgr.connections[e1].dataDir = Join(BaseDir, e1)
        /\ StrictlyInside(mgr.connections[e1].dataDir, BaseDir)
        /\ \A e2 \in DOMAIN mgr.connections :
               e1 # e2 => mgr.connections[e1].dataDir # mgr.connections[e2].dataDir

====
